---- MODULE Spec2Model ----
(***************************************************************************)
(* DiZzy FC: the combat loop of main.py (game_loop and the Fighter class)  *)
(* and the background piezo sampler of sensor_reader.py.                   *)
(*                                                                         *)
(* Time is in integer milliseconds.  PWM duty cycles are in tenths of a    *)
(* percent (4.9 % is 49).                                                  *)
(***************************************************************************)
EXTENDS Integers, Sequences, FiniteSets, TLC

(***************************************************************************)
(* Constants of main.py                                                    *)
(***************************************************************************)
STARTING_HP == 50
MOVE_FORWARD == 49
MOVE_BACKWARD == 89
MOVE_STOP == 0
ARM_NEUTRAL == 0
ARM_ATTACK == 90
ARM_NEUTRAL_MIRRORED == 180
attack_duration == 150
hit_cooldown == 300
\* between two rounds: time.sleep(2), the 0.3 s of reset_arms and the countdown
RematchMs == 5300

(***************************************************************************)
(* Constants of sensor_reader.py and the arguments the sampler is built    *)
(* with: PiezoSensorReader(channels=(0, 1), queue_maxlen=2), the rest at   *)
(* their defaults.  The filtered signal and the baseline are held in       *)
(* hundredths of an ADC count, damages in thousandths.                     *)
(***************************************************************************)
DEFAULT_THRESHOLD == 100
MIN_DAMAGE == 5000
MAX_DAMAGE == 50000
DAMAGE_DIVISOR == 10
threshold == DEFAULT_THRESHOLD
hit_debounce_ms == 100
\* self._thread.join(timeout=2.0), in ms
JoinTimeoutMs == 2000
\* sample_dt = 1.0 / sample_hz, in ms
sample_dt == 10
\* baseline_alpha, in hundredths
baseline_alpha == 98
Scale == 100
channels == <<0, 1>>
queue_maxlen == 2

(***************************************************************************)
(* Bounds of the model                                                     *)
(***************************************************************************)
\* time.time() in ms when game_loop is entered (an epoch reading, far above
\* every interval of the program)
T0 == 1000
\* at most this many buttons are down on one tick
MaxPressed == 2
\* Spec: ms between the time.time() readings of two consecutive ticks, and the
\* number of ticks followed
TickMs == 150
MaxTicks == 4
\* FightSpec: a slow tick (every reading is outside the hit cooldown) and the
\* number of ticks followed (ten hits need ten ticks)
FightTickMs == 350
MaxFightTicks == 10
\* CooldownSpec: ticks inside and at the edge of the hit cooldown
CooldownTickDeltas == {50, 300}
MaxCooldownMs == 450
\* RoundFaultSpec: the number of ticks followed
MaxFaultTicks == 4
\* LifeSpec: the engine makes at most MaxLifeCalls start() and stop() calls,
\* time passes in steps of LifeStepMs and is followed for MaxLifeSteps steps
MaxLifeCalls == 3
LifeStepMs == 2000
MaxLifeSteps == 2
\* QueueSpec: the engine makes at most MaxPops pop_events calls, with these
\* values of max_items
MaxPops == 2
PopSizes == {0, 1, 2}
\* SamplerSpec: the wall clock moves in steps of ClockStepMs and is followed
\* for MaxSamplerMs; the engine makes at most MaxCalls mask/boost calls
ClockStepMs == 50
MaxSamplerMs == 100
MaxCalls == 1
\* readings the sampler gets from a piezo channel
PiezoInputs == {0, 600}
\* arguments of mask_channels and boost_threshold
CallChannels == {<<0>>, <<0, 1>>}
CallDurations == {100}
BoostExtras == {500}
\* ExpirySpec: two boost_threshold calls in a row on channel 0, the clock moving
\* in steps of ExpiryStepMs for MaxExpirySteps steps
ExpiryStepMs == 60
MaxExpirySteps == 3
MaxBoosts == 2
ExpiryChannels == {<<0>>}
ExpiryExtras == {200, 500}
ExpiryInputs == {600}
\* TermSpec: the sampler begins ticks during the first MaxTermMs ms
MaxTermMs == 30
\* MaskSpec: at most MaxMasks mask_channels calls, of a short and a long duration
MaxMasks == 2
MaskDurations == {50, 200}
\* RestSpec: the constant a resting channel reads on every tick
RestInputs == {0, 100, 600, 1023}
\* SessionSpec: at most MaxRounds rematches, MaxRoundTicks ticks in a round
MaxRounds == 1
MaxRoundTicks == 8
\* AttackSpec, ShutdownSpec: two threads make at most MaxAttacks _attack calls
\* between them, the clock moves in steps of ServoStepMs for MaxServoSteps steps
ServoStepMs == 250
MaxServoSteps == 4
MaxAttacks == 2
Callers == {1, 2}
ServoLimbs == {"arm", "leg"}
ServoOutputs == {"arm", "leg", "wheel"}
SwingDegs == {90, 120}
HoldArgs == {-1, 200}
CooldownArgs == {-1, 500}
\* CtorSpec: the channel ids given to the constructor, one or two of them or
\* none, and the number of channel reads followed afterwards
CtorIds == {-1, 0, 3, 7, 8}
CtorChannels == {<<>>} \cup {<<a>> : a \in CtorIds} \cup {<<a, b>> : a \in CtorIds, b \in CtorIds}
MaxCtorReads == 4
\* MapSpec: the signals (in counts, from -MapBelow to MaxMapSignal in steps of
\* MapSignalStep) and thresholds _map_damage is called with
MapBelow == 50
MaxMapSignal == 1023
MapSignalStep == 10
MapSignals == {v * Scale : v \in {x \in (0 - MapBelow)..MaxMapSignal :
                                     (x + MapBelow) % MapSignalStep = 0}}
MapThresholds == {DEFAULT_THRESHOLD, DEFAULT_THRESHOLD + 500}
\* readings of one FSR channel of the MCP3008
AdcInputs == {0, 500}
\* the damages calculate_damage can return
Damages == {3, 4, 5, 6, 7}

Players == {1, 2}
Sides == {"left", "right"}
Limbs == Players \X Sides
Buttons == Players \X {"left", "right", "atk_left", "atk_right"}
Outputs == Players \X {"move_left", "move_right", "arm_left", "arm_right"}

ButtonInputs == {b \in SUBSET Buttons : Cardinality(b) <= MaxPressed}
ForceInputs == [Players -> {x + y : x \in AdcInputs, y \in AdcInputs}]
\* SessionSpec: the buttons held and the forces read on a tick
SessionButtons == {{}, {<<1, "left">>}, {<<1, "atk_left">>}}
SessionForces == {<<1000, 0>>, <<0, 1000>>}

VARIABLES
    now,        \* current_time of the latest tick of game_loop
    btn,        \* the buttons GPIO.input reported pressed on the latest tick
    hp,         \* Fighter.hp
    last_hit,   \* p1_last_hit_time, p2_last_hit_time
    attacking,  \* p1_left_attacking .. p2_right_attacking
    timer,      \* p1_left_timer .. p2_right_timer
    pwm,        \* the duty cycle last commanded on each PWM output
    cmds,       \* the ChangeDutyCycle calls of the latest tick, in order
    winner,     \* what game_loop returned ("none" while it runs)
    taken,      \* history: how many times take_damage(amount) ran, per fighter and amount
    ignored     \* history: damaging readings presented while the hit cooldown ran

gameVars == <<now, btn, hp, last_hit, attacking, timer, pwm, cmds, winner, taken, ignored>>

VARIABLES
    clock,          \* int(time.time() * 1000)
    s_pc,           \* where the sampling thread is in _loop
    tick_ms,        \* _loop: tick_ms of the tick in progress
    idx,            \* _loop: position of ch in self.channels
    signal,         \* _loop: signal of the channel in progress
    eff_thr,        \* _loop: eff_thr of the channel in progress
    latest,         \* self._latest
    baseline,       \* self._baseline
    last_hit_ms,    \* self._last_hit_ms
    mask_until_ms,  \* self._mask_until_ms
    boost_extra,    \* self._boost_extra
    boost_until_ms, \* self._boost_until_ms
    events,         \* self._events
    e_call,         \* the mask_channels / boost_threshold call the engine is in
    ncalls,         \* number of calls the engine has made
    emitted,        \* history: every event appended, with the clock at the append
    mask_log        \* history: the mask_channels calls that have returned

samplerVars == <<clock, s_pc, tick_ms, idx, signal, eff_thr, latest, baseline,
                 last_hit_ms, mask_until_ms, boost_extra, boost_until_ms, events,
                 e_call, ncalls, emitted, mask_log>>

VARIABLES
    md_val,         \* _map_damage: val of the call
    md_thr,         \* _map_damage: thr of the call
    md_dmg          \* _map_damage: the value returned

mapVars == <<md_val, md_thr, md_dmg>>

VARIABLES
    read_errors     \* history: number of _read_adc calls that raised

faultVars == <<read_errors>>

VARIABLES
    session,        \* main.py __main__: "running", "ended" by an error, "interrupted"
    raised_by,      \* history: the fighter whose read_force raised, 0 if none
    released        \* the finally block has stopped the PWMs and released SPI and GPIO

crashVars == <<session, raised_by, released>>

VARIABLES
    p_call,         \* the pop_events call the engine is in
    npops,          \* number of pop_events calls the engine has made
    returned        \* history: the lists the pop_events calls have returned

popVars == <<p_call, npops, returned>>

VARIABLES
    stop_flag,      \* self._stop, the Event
    spi_open,       \* self.spi is open
    l_call,         \* the stop() call the engine is in
    nlife,          \* number of start() and stop() calls the engine has made
    life_log        \* history: what each start() and stop() call ended with

lifeVars == <<stop_flag, spi_open, l_call, nlife, life_log>>

VARIABLES
    boost_log       \* history: the boost_threshold calls that have returned

boostVars == <<boost_log>>

VARIABLES
    c_channels,     \* the channels argument of PiezoSensorReader(...)
    c_pc,           \* "call" before __init__ has run, then "built" or "raised"
    c_spi,          \* self.spi.open(...) has been done
    c_task,         \* the sampling thread: "none", "created", "running", "crashed"
    c_idx,          \* _loop: position of ch in self.channels
    c_reads,        \* number of _read_adc calls that have returned
    c_error         \* where a ValueError was raised: "none", "constructor", "task"

ctorVars == <<c_channels, c_pc, c_spi, c_task, c_idx, c_reads, c_error>>

VARIABLES
    v_clock,        \* time in ms
    a_lock,         \* self._attack_lock: 0 when free, else the thread holding it
    a_pc,           \* where each calling thread is in _attack
    a_arg,          \* the arguments of its call
    a_since,        \* the start of the time.sleep it is in
    a_result,       \* how its last call ended: "none", "ok", "raised"
    a_ncmd,         \* history: number of servo commands its call has issued
    nattacks,       \* number of _attack calls made
    macro_angle,    \* history: the last angle_deg a macro gave to each limb's goto
    duty_cycle,     \* the duty cycle last set on each output, in thousandths of a percent
    enabled,        \* the output's PWM runs and its pin is an output
    gpio_clean,     \* GPIO.cleanup() has been called
    sd_pc,          \* where the thread calling shutdown() is
    sd_posed,       \* history: the outputs shutdown() has commanded to neutral/stop
    cmd_last        \* history: the last pulse command, and whether its output was enabled

servoVars == <<v_clock, a_lock, a_pc, a_arg, a_since, a_result, a_ncmd, nattacks,
               macro_angle, duty_cycle, enabled, gpio_clean, sd_pc, sd_posed, cmd_last>>

VARIABLES
    nround,         \* number of rematches begun
    wins,           \* p1_wins, p2_wins
    round_t0,       \* history: the time game_loop was entered
    prev_end        \* history: how the round before ended (lowest hp, a limb still
                    \* swinging, a hit time set)

roundVars == <<nround, wins, round_t0, prev_end>>

VARIABLES
    resting         \* history: per channel, the one value every read of it has
                    \* returned so far (-1 before its first read)

restingVars == <<resting>>

\* the variables outside game_loop and the running sampler
restVars == <<ctorVars, servoVars, roundVars, restingVars>>

\* what the steps of game_loop, and of the sampler, leave alone
exceptGame == <<samplerVars, mapVars, faultVars, crashVars, popVars, lifeVars, boostVars,
                restVars>>
exceptSampler == <<gameVars, mapVars, faultVars, crashVars, popVars, lifeVars, boostVars,
                   restVars>>
exceptSamplerLife == <<gameVars, mapVars, faultVars, crashVars, popVars, boostVars,
                       restVars>>
exceptSamplerBoost == <<gameVars, mapVars, faultVars, crashVars, popVars, lifeVars,
                        restVars>>
exceptCtor == <<gameVars, samplerVars, mapVars, faultVars, crashVars, popVars, lifeVars,
                boostVars, servoVars, roundVars, restingVars>>
exceptServo == <<gameVars, samplerVars, mapVars, faultVars, crashVars, popVars, lifeVars,
                 boostVars, ctorVars, roundVars, restingVars>>

vars == <<gameVars, samplerVars, mapVars, faultVars, crashVars, popVars, lifeVars,
          boostVars, restVars>>

(***************************************************************************)
(* Helpers of main.py                                                      *)
(***************************************************************************)
calculate_damage(force_reading) ==
    IF force_reading < 75 THEN 0
    ELSE IF force_reading < 200 THEN 3
    ELSE IF force_reading < 400 THEN 4
    ELSE IF force_reading < 600 THEN 5
    ELSE IF force_reading < 800 THEN 6
    ELSE 7

\* duty = 2.5 + (angle / 180.0) * 10.0, in tenths of a percent
AngleDuty(angle) == 25 + (angle * 100) \div 180

\* pwm.ChangeDutyCycle(duty) on output o
ChangeDutyCycle(st, o, duty) ==
    [st EXCEPT !.pwm[o] = duty, !.cmds = Append(@, <<o, duty>>)]

set_angle(st, o, angle) == ChangeDutyCycle(st, o, AngleDuty(angle))

\* player 1 is built with facing_right=True, player 2 with facing_right=False
facing_right(p) == p = 1

move_left(st, p) ==
    IF facing_right(p)
    THEN ChangeDutyCycle(ChangeDutyCycle(st, <<p, "move_left">>, MOVE_BACKWARD),
                         <<p, "move_right">>, MOVE_FORWARD)
    ELSE ChangeDutyCycle(ChangeDutyCycle(st, <<p, "move_left">>, MOVE_FORWARD),
                         <<p, "move_right">>, MOVE_BACKWARD)

move_right(st, p) ==
    IF facing_right(p)
    THEN ChangeDutyCycle(ChangeDutyCycle(st, <<p, "move_left">>, MOVE_FORWARD),
                         <<p, "move_right">>, MOVE_BACKWARD)
    ELSE ChangeDutyCycle(ChangeDutyCycle(st, <<p, "move_left">>, MOVE_BACKWARD),
                         <<p, "move_right">>, MOVE_FORWARD)

stop(st, p) ==
    ChangeDutyCycle(ChangeDutyCycle(st, <<p, "move_left">>, MOVE_STOP),
                    <<p, "move_right">>, MOVE_STOP)

ArmOf(side) == IF side = "left" THEN "arm_left" ELSE "arm_right"
AtkButtonOf(side) == IF side = "left" THEN "atk_left" ELSE "atk_right"
NeutralOf(side) == IF side = "left" THEN ARM_NEUTRAL_MIRRORED ELSE ARM_NEUTRAL

\* attack_left / attack_right
attack(st, p, side) == set_angle(st, <<p, ArmOf(side)>>, ARM_ATTACK)

\* reset_left_arm / reset_right_arm
reset_arm(st, p, side) == set_angle(st, <<p, ArmOf(side)>>, NeutralOf(side))

\* take_damage without the clamp at 0
take_damage_noclamp(st, p, amount) ==
    [st EXCEPT !.hp[p] = @ - amount, !.taken[p][amount] = @ + 1]

\* take_damage with the sign of the update slipped
take_damage_heal(st, p, amount) ==
    LET h == st.hp[p] + amount
    IN  [st EXCEPT !.hp[p] = IF h < 0 THEN 0 ELSE h,
                   !.taken[p][amount] = @ + 1]

take_damage(st, p, amount) ==
    LET h == st.hp[p] - amount
    IN  [st EXCEPT !.hp[p] = IF h < 0 THEN 0 ELSE h,
                   !.taken[p][amount] = @ + 1]

\* is_knocked_out testing hp < 0
is_knocked_out_lt(st, p) == st.hp[p] < 0

is_knocked_out(st, p) == st.hp[p] <= 0

(***************************************************************************)
(* One tick of game_loop, block by block                                   *)
(***************************************************************************)
\* Movement: if left / elif right / else stop
Movement(st, p, b) ==
    IF <<p, "left">> \in b THEN move_left(st, p)
    ELSE IF <<p, "right">> \in b THEN move_right(st, p)
    ELSE stop(st, p)

\* Trigger with one timer per fighter, shared by its two arms
Trigger_shared(st, p, side, b, t) ==
    IF <<p, AtkButtonOf(side)>> \in b /\ ~st.attacking[<<p, side>>]
    THEN [attack(st, p, side) EXCEPT !.attacking[<<p, side>>] = TRUE,
                                     !.timer[<<p, "left">>] = t,
                                     !.timer[<<p, "right">>] = t]
    ELSE st

\* if button_pressed(atk) and not attacking: attack, attacking = True, timer = current_time
Trigger(st, p, side, b, t) ==
    IF <<p, AtkButtonOf(side)>> \in b /\ ~st.attacking[<<p, side>>]
    THEN [attack(st, p, side) EXCEPT !.attacking[<<p, side>>] = TRUE,
                                     !.timer[<<p, side>>] = t]
    ELSE st

\* Retract comparing with >= instead of >
Retract_ge(st, p, side, t) ==
    IF st.attacking[<<p, side>>] /\ (t - st.timer[<<p, side>>]) >= attack_duration
    THEN [reset_arm(st, p, side) EXCEPT !.attacking[<<p, side>>] = FALSE]
    ELSE st

\* if attacking and (current_time - timer) > attack_duration: reset arm, attacking = False
Retract(st, p, side, t) ==
    IF st.attacking[<<p, side>>] /\ (t - st.timer[<<p, side>>]) > attack_duration
    THEN [reset_arm(st, p, side) EXCEPT !.attacking[<<p, side>>] = FALSE]
    ELSE st

PlayerInput(st, p, b, t) ==
    LET s1 == Movement(st, p, b)
        s2 == Trigger(s1, p, "left", b, t)
        s3 == Trigger(s2, p, "right", b, t)
        s4 == Retract(s3, p, "left", t)
    IN  Retract(s4, p, "right", t)

\* DamageDetection comparing the cooldown with >= instead of >
DamageDetection_ge(st, p, f, t) ==
    IF (t - st.last_hit[p]) >= hit_cooldown
    THEN LET damage == calculate_damage(f[p])
         IN  IF damage > 0
             THEN [take_damage(st, p, damage) EXCEPT !.last_hit[p] = t]
             ELSE st
    ELSE IF calculate_damage(f[p]) > 0
         THEN [st EXCEPT !.ignored[p] = @ + 1]
         ELSE st

\* DamageDetection stamping the cooldown clock on every reading taken
DamageDetection_stamp(st, p, f, t) ==
    IF (t - st.last_hit[p]) > hit_cooldown
    THEN LET damage == calculate_damage(f[p])
         IN  IF damage > 0
             THEN [take_damage(st, p, damage) EXCEPT !.last_hit[p] = t]
             ELSE [st EXCEPT !.last_hit[p] = t]
    ELSE IF calculate_damage(f[p]) > 0
         THEN [st EXCEPT !.ignored[p] = @ + 1]
         ELSE st

\* Damage detection with cooldown, for one fighter
DamageDetection(st, p, f, t) ==
    IF (t - st.last_hit[p]) > hit_cooldown
    THEN LET damage == calculate_damage(f[p])
         IN  IF damage > 0
             THEN [take_damage(st, p, damage) EXCEPT !.last_hit[p] = t]
             ELSE st
    ELSE IF calculate_damage(f[p]) > 0
         THEN [st EXCEPT !.ignored[p] = @ + 1]
         ELSE st

Other(p) == 3 - p
PlayerName(p) == IF p = 1 THEN "Player 1" ELSE "Player 2"

\* the pose of a knockout: loser's arms neutral, winner's arms up
VictoryPose(st, loser) ==
    LET s1 == set_angle(st, <<loser, "arm_left">>, ARM_NEUTRAL_MIRRORED)
        s2 == set_angle(s1, <<loser, "arm_right">>, ARM_NEUTRAL)
        s3 == set_angle(s2, <<Other(loser), "arm_left">>, ARM_ATTACK)
        s4 == set_angle(s3, <<Other(loser), "arm_right">>, ARM_ATTACK)
    IN  [s4 EXCEPT !.winner = PlayerName(Other(loser))]

WinCondition(st) ==
    IF is_knocked_out(st, 1) THEN VictoryPose(st, 1)
    ELSE IF is_knocked_out(st, 2) THEN VictoryPose(st, 2)
    ELSE st

GameState ==
    [hp |-> hp, last_hit |-> last_hit, attacking |-> attacking, timer |-> timer,
     pwm |-> pwm, cmds |-> <<>>, winner |-> winner, taken |-> taken,
     ignored |-> ignored]

LoopBody(b, f, t) ==
    LET s1 == PlayerInput(GameState, 1, b, t)
        s2 == PlayerInput(s1, 2, b, t)
        s3 == DamageDetection(s2, 1, f, t)
        s4 == DamageDetection(s3, 2, f, t)
    IN  WinCondition(s4)

\* one iteration of "while True" at current_time = now + dt, GPIO.input
\* reporting the buttons of b pressed and read_force returning f
Tick(dt, b, f) ==
    /\ winner = "none"
    /\ \E st \in {LoopBody(b, f, now + dt)} :
           /\ now' = now + dt
           /\ btn' = b
           /\ hp' = st.hp
           /\ last_hit' = st.last_hit
           /\ attacking' = st.attacking
           /\ timer' = st.timer
           /\ pwm' = st.pwm
           /\ cmds' = st.cmds
           /\ winner' = st.winner
           /\ taken' = st.taken
           /\ ignored' = st.ignored

\* stop_all_movement()
stop_all_movement(st) ==
    LET s1 == ChangeDutyCycle(st, <<1, "move_left">>, MOVE_STOP)
        s2 == ChangeDutyCycle(s1, <<1, "move_right">>, MOVE_STOP)
        s3 == ChangeDutyCycle(s2, <<2, "move_left">>, MOVE_STOP)
    IN  ChangeDutyCycle(s3, <<2, "move_right">>, MOVE_STOP)

\* the loop body up to the read_force() of fighter who, which raises
BodyUntilRead(b, f, t, who) ==
    LET s1 == PlayerInput(GameState, 1, b, t)
        s2 == PlayerInput(s1, 2, b, t)
    IN  IF who = 1 THEN s2 ELSE DamageDetection(s2, 1, f, t)

\* one iteration of "while True" on which spi.xfer2 raises inside the
\* read_force() of fighter who: the error leaves read_adc, read_force and
\* game_loop, __main__ catches KeyboardInterrupt only, its finally block runs
\* and the program ends
ReadForceRaises(dt, b, f, who) ==
    /\ winner = "none"
    /\ session = "running"
    /\ \E st \in {BodyUntilRead(b, f, now + dt, who)} :
           /\ (now + dt - st.last_hit[who]) > hit_cooldown
           /\ \E fin \in {stop_all_movement(st)} :
                  /\ now' = now + dt
                  /\ btn' = b
                  /\ hp' = fin.hp
                  /\ last_hit' = fin.last_hit
                  /\ attacking' = fin.attacking
                  /\ timer' = fin.timer
                  /\ pwm' = fin.pwm
                  /\ cmds' = fin.cmds
                  /\ winner' = fin.winner
                  /\ taken' = fin.taken
                  /\ ignored' = fin.ignored
    /\ session' = "ended"
    /\ raised_by' = who
    /\ released' = TRUE

\* reset_arms(): the four arms to neutral, then their PWM signal off
reset_arms(st) ==
    LET s1 == set_angle(st, <<1, "arm_left">>, ARM_NEUTRAL_MIRRORED)
        s2 == set_angle(s1, <<1, "arm_right">>, ARM_NEUTRAL)
        s3 == set_angle(s2, <<2, "arm_left">>, ARM_NEUTRAL_MIRRORED)
        s4 == set_angle(s3, <<2, "arm_right">>, ARM_NEUTRAL)
        s5 == ChangeDutyCycle(s4, <<1, "arm_left">>, 0)
        s6 == ChangeDutyCycle(s5, <<1, "arm_right">>, 0)
        s7 == ChangeDutyCycle(s6, <<2, "arm_left">>, 0)
    IN  ChangeDutyCycle(s7, <<2, "arm_right">>, 0)

\* the fighters of the round before kept
FreshRound_keep(st) ==
    [st EXCEPT !.last_hit = [p \in Players |-> 0],
               !.attacking = [l \in Limbs |-> FALSE],
               !.timer = [l \in Limbs |-> 0],
               !.winner = "none"]

\* Fighter(...) twice and the locals of game_loop: the state a round starts in
FreshRound(st) ==
    [st EXCEPT !.hp = [p \in Players |-> STARTING_HP],
               !.last_hit = [p \in Players |-> 0],
               !.attacking = [l \in Limbs |-> FALSE],
               !.timer = [l \in Limbs |-> 0],
               !.winner = "none",
               !.taken = [p \in Players |-> [d \in Damages |-> 0]],
               !.ignored = [p \in Players |-> 0]]

\* __main__ from the return of game_loop to the next call of it: the win
\* counter, stop_all_movement(), the sleep, fresh fighters, reset_arms(),
\* stop_all_movement(), the start buttons and the countdown; then game_loop
\* sets its timers, flags and hit times
NewRound ==
    /\ session = "running"
    /\ winner # "none"
    /\ nround < MaxRounds
    /\ nround' = nround + 1
    /\ wins' = [wins EXCEPT ![IF winner = "Player 1" THEN 1 ELSE 2] = @ + 1]
    /\ prev_end' = [hp |-> IF hp[1] < hp[2] THEN hp[1] ELSE hp[2],
                    swinging |-> \E l \in Limbs : attacking[l],
                    hit |-> \E p \in Players : last_hit[p] # 0]
    /\ round_t0' = now + RematchMs
    /\ \E st \in {FreshRound(stop_all_movement(reset_arms(stop_all_movement(GameState))))} :
           /\ now' = now + RematchMs
           /\ btn' = {}
           /\ hp' = st.hp
           /\ last_hit' = st.last_hit
           /\ attacking' = st.attacking
           /\ timer' = st.timer
           /\ pwm' = st.pwm
           /\ cmds' = st.cmds
           /\ winner' = st.winner
           /\ taken' = st.taken
           /\ ignored' = st.ignored

\* Ctrl+C between two ticks, in the victory hold or between two rounds:
\* "except KeyboardInterrupt" prints the score, then the finally block runs
\* stop_all_movement(), pwm.stop() on every output, spi.close() and
\* GPIO.cleanup()
Interrupt ==
    /\ session = "running"
    /\ session' = "interrupted"
    /\ released' = TRUE
    /\ UNCHANGED raised_by
    /\ \E fin \in {stop_all_movement(GameState)} :
           /\ pwm' = fin.pwm
           /\ cmds' = fin.cmds
    /\ UNCHANGED <<now, btn, hp, last_hit, attacking, timer, winner, taken, ignored>>

\* game_loop is entered: fresh fighters, reset_arms() and stop_all_movement()
\* have left every output at duty 0
GameInit ==
    /\ now = T0
    /\ btn = {}
    /\ hp = [p \in Players |-> STARTING_HP]
    /\ last_hit = [p \in Players |-> 0]
    /\ attacking = [l \in Limbs |-> FALSE]
    /\ timer = [l \in Limbs |-> 0]
    /\ pwm = [o \in Outputs |-> 0]
    /\ cmds = <<>>
    /\ winner = "none"
    /\ taken = [p \in Players |-> [d \in Damages |-> 0]]
    /\ ignored = [p \in Players |-> 0]

(***************************************************************************)
(* sensor_reader.py: PiezoSensorReader                                     *)
(***************************************************************************)
Max(a, b) == IF a > b THEN a ELSE b
ChannelSet == {channels[i] : i \in 1..Len(channels)}
Idle == [op |-> "none"]

\* the state __init__ leaves, the thread object built and not started
SamplerInit ==
    /\ clock = T0
    /\ s_pc = "new"
    /\ tick_ms = 0
    /\ idx = 1
    /\ signal = 0
    /\ eff_thr = 0
    /\ latest = [c \in ChannelSet |-> 0]
    /\ baseline = [c \in ChannelSet |-> 0]
    /\ last_hit_ms = [c \in ChannelSet |-> 0]
    /\ mask_until_ms = [c \in ChannelSet |-> 0]
    /\ boost_extra = [c \in ChannelSet |-> 0]
    /\ boost_until_ms = [c \in ChannelSet |-> 0]
    /\ events = <<>>
    /\ e_call = Idle
    /\ ncalls = 0
    /\ emitted = <<>>
    /\ mask_log = {}

\* start(): the thread is not alive, so it is started
IsAlive == s_pc \notin {"new", "exited", "crashed"}

\* start(): nothing is done while the thread is alive; otherwise the stop
\* flag is cleared and self._thread.start() is called, which launches a thread
\* object that was never started and raises RuntimeError on one that was
start ==
    /\ l_call.op = "none"
    /\ nlife < MaxLifeCalls
    /\ nlife' = nlife + 1
    /\ IF IsAlive
       THEN /\ UNCHANGED <<s_pc, stop_flag>>
            /\ life_log' = Append(life_log, [call |-> "start", result |-> "ok",
                                             was_alive |-> TRUE, alive |-> TRUE])
       ELSE /\ stop_flag' = FALSE
            /\ IF s_pc = "new"
               THEN /\ s_pc' = "loop"
                    /\ life_log' = Append(life_log, [call |-> "start", result |-> "ok",
                                                     was_alive |-> FALSE, alive |-> TRUE])
               ELSE /\ s_pc' = s_pc
                    /\ life_log' = Append(life_log,
                                          [call |-> "start", result |-> "RuntimeError",
                                           was_alive |-> FALSE, alive |-> FALSE])
    /\ UNCHANGED <<spi_open, l_call>>
    /\ UNCHANGED <<clock, tick_ms, idx, signal, eff_thr, latest, baseline, last_hit_ms,
                   mask_until_ms, boost_extra, boost_until_ms, events, e_call, ncalls,
                   emitted, mask_log>>

\* stop(): self._stop.set(), and the is_alive() test
StopCall ==
    /\ l_call.op = "none"
    /\ nlife < MaxLifeCalls
    /\ nlife' = nlife + 1
    /\ stop_flag' = TRUE
    /\ l_call' = [op |-> IF IsAlive THEN "join" ELSE "close", since |-> clock,
                  never_started |-> s_pc = "new"]
    /\ UNCHANGED <<spi_open, life_log, samplerVars>>

\* self._thread.join(timeout=2.0) returns: the thread has ended, or the
\* timeout has passed
StopJoin ==
    /\ l_call.op = "join"
    /\ \/ ~IsAlive
       \/ clock - l_call.since >= JoinTimeoutMs
    /\ l_call' = [l_call EXCEPT !.op = "close"]
    /\ UNCHANGED <<stop_flag, spi_open, nlife, life_log, samplerVars>>

\* self.spi.close(), any error of it swallowed, and the return of stop()
StopClose ==
    /\ l_call.op = "close"
    /\ spi_open' = FALSE
    /\ l_call' = [op |-> "none"]
    /\ life_log' = Append(life_log, [call |-> "stop", result |-> "ok",
                                     never_started |-> l_call.never_started,
                                     alive |-> IsAlive])
    /\ UNCHANGED <<stop_flag, nlife, samplerVars>>

\* time passes, in the steps of LifeSpec
Elapse ==
    /\ clock + LifeStepMs <= T0 + MaxLifeSteps * LifeStepMs
    /\ clock' = clock + LifeStepMs
    /\ UNCHANGED <<s_pc, tick_ms, idx, signal, eff_thr, latest, baseline, last_hit_ms,
                   mask_until_ms, boost_extra, boost_until_ms, events, e_call, ncalls,
                   emitted, mask_log>>

\* "while not self._stop.is_set()" finds the flag set: _loop returns and the
\* thread ends
LoopExit ==
    /\ \/ s_pc = "loop"
       \/ s_pc = "sleep" /\ clock - tick_ms >= sample_dt
    /\ stop_flag
    /\ s_pc' = "exited"
    /\ UNCHANGED <<clock, tick_ms, idx, signal, eff_thr, latest, baseline, last_hit_ms,
                   mask_until_ms, boost_extra, boost_until_ms, events, e_call, ncalls,
                   emitted, mask_log>>

\* time passes
Advance ==
    /\ clock + ClockStepMs <= T0 + MaxSamplerMs
    /\ clock' = clock + ClockStepMs
    /\ UNCHANGED <<s_pc, tick_ms, idx, signal, eff_thr, latest, baseline, last_hit_ms,
                   mask_until_ms, boost_extra, boost_until_ms, events, e_call, ncalls,
                   emitted, mask_log>>

\* time passes between two boost_threshold calls
Lapse ==
    /\ clock + ExpiryStepMs <= T0 + MaxExpirySteps * ExpiryStepMs
    /\ clock' = clock + ExpiryStepMs
    /\ UNCHANGED <<s_pc, tick_ms, idx, signal, eff_thr, latest, baseline, last_hit_ms,
                   mask_until_ms, boost_extra, boost_until_ms, events, e_call, ncalls,
                   emitted, mask_log>>

\* a loop that begins its next tick without looking at the stop flag
LoopTick_deaf ==
    /\ \/ s_pc = "loop"
       \/ s_pc = "sleep" /\ clock - tick_ms >= sample_dt
    /\ tick_ms' = clock
    /\ idx' = 1
    /\ s_pc' = "read"
    /\ UNCHANGED <<clock, signal, eff_thr, latest, baseline, last_hit_ms, mask_until_ms,
                   boost_extra, boost_until_ms, events, e_call, ncalls, emitted, mask_log>>

\* time.sleep(sleep) returns: the rest of sample_dt has passed
SleepOver ==
    /\ s_pc = "sleep"
    /\ clock - tick_ms < sample_dt
    /\ clock' = tick_ms + sample_dt
    /\ UNCHANGED <<s_pc, tick_ms, idx, signal, eff_thr, latest, baseline, last_hit_ms,
                   mask_until_ms, boost_extra, boost_until_ms, events, e_call, ncalls,
                   emitted, mask_log>>

\* _loop, top of "while not self._stop.is_set()": the first tick, or the tick
\* after the sleep of the rest of sample_dt; tick_ms = now_ms()
LoopTick ==
    /\ \/ s_pc = "loop"
       \/ s_pc = "sleep" /\ clock - tick_ms >= sample_dt
    /\ ~stop_flag
    /\ tick_ms' = clock
    /\ idx' = 1
    /\ s_pc' = "read"
    /\ UNCHANGED <<clock, signal, eff_thr, latest, baseline, last_hit_ms, mask_until_ms,
                   boost_extra, boost_until_ms, events, e_call, ncalls, emitted, mask_log>>

\* y[n] = alpha * y[n-1] + (1 - alpha) * x[n], in hundredths of a count
UpdateBaseline(b, val) == (baseline_alpha * b + (100 - baseline_alpha) * val * Scale) \div 100

\* "continue" / end of the for body: the next channel, or the sleep
AfterChannel == IF idx < Len(channels) THEN "read" ELSE "sleep"
NextIdx == IF idx < Len(channels) THEN idx + 1 ELSE idx

\* val = self._read_adc(ch), the baseline update, and the mask test
ReadChannel(val) ==
    /\ s_pc = "read"
    /\ LET ch == channels[idx]
           b == UpdateBaseline(baseline[ch], val)
       IN  /\ latest' = [latest EXCEPT ![ch] = val]
           /\ baseline' = [baseline EXCEPT ![ch] = b]
           /\ signal' = val * Scale - b
           /\ IF tick_ms < mask_until_ms[ch]
              THEN s_pc' = AfterChannel /\ idx' = NextIdx
              ELSE s_pc' = "boost" /\ idx' = idx
    /\ UNCHANGED <<clock, tick_ms, eff_thr, last_hit_ms, mask_until_ms, boost_extra,
                   boost_until_ms, events, e_call, ncalls, emitted, mask_log>>

\* val = self._read_adc(ch) raises: nothing in _loop catches the error, it
\* leaves _loop and the thread ends
ReadRaises ==
    /\ s_pc = "read"
    /\ s_pc' = "crashed"
    /\ read_errors' = read_errors + 1
    /\ UNCHANGED <<clock, tick_ms, idx, signal, eff_thr, latest, baseline, last_hit_ms,
                   mask_until_ms, boost_extra, boost_until_ms, events, e_call, ncalls,
                   emitted, mask_log>>

\* if tick_ms > self._boost_until_ms[ch]: (the test)
BoostTest ==
    /\ s_pc = "boost"
    /\ s_pc' = IF tick_ms > boost_until_ms[channels[idx]] THEN "boost_clear" ELSE "threshold"
    /\ UNCHANGED <<clock, tick_ms, idx, signal, eff_thr, latest, baseline, last_hit_ms,
                   mask_until_ms, boost_extra, boost_until_ms, events, e_call, ncalls,
                   emitted, mask_log>>

\* self._boost_extra[ch] = 0
BoostClear ==
    /\ s_pc = "boost_clear"
    /\ boost_extra' = [boost_extra EXCEPT ![channels[idx]] = 0]
    /\ s_pc' = "threshold"
    /\ UNCHANGED <<clock, tick_ms, idx, signal, eff_thr, latest, baseline, last_hit_ms,
                   mask_until_ms, boost_until_ms, events, e_call, ncalls, emitted, mask_log>>

\* the boost left out of the effective threshold
EffThr_noboost(extra) == threshold

\* eff_thr = self.threshold + self._boost_extra[ch]
EffThr(extra) == threshold + extra

\* signal > eff_thr
AboveThreshold(sig, thr) == sig > thr * Scale

\* hit_debounce_ms taken for seconds
DebounceOk_seconds(t, last) == t - last >= hit_debounce_ms \div 1000

\* tick_ms - last >= self.hit_debounce_ms
DebounceOk(t, last) == t - last >= hit_debounce_ms

\* the threshold and debounce tests of the channel in progress
ThresholdTest ==
    /\ s_pc = "threshold"
    /\ LET ch == channels[idx]
           thr == EffThr(boost_extra[ch])
       IN  /\ eff_thr' = thr
           /\ IF AboveThreshold(signal, thr) /\ DebounceOk(tick_ms, last_hit_ms[ch])
              THEN s_pc' = "emit" /\ idx' = idx
              ELSE s_pc' = AfterChannel /\ idx' = NextIdx
    /\ UNCHANGED <<clock, tick_ms, signal, latest, baseline, last_hit_ms, mask_until_ms,
                   boost_extra, boost_until_ms, events, e_call, ncalls, emitted, mask_log>>

\* the MAX_DAMAGE clamp left out
map_damage_nomax(val, thr) ==
    LET delta == Max(0, val - thr * Scale)
        dmg == (delta * 1000) \div (DAMAGE_DIVISOR * Scale)
    IN  IF dmg < MIN_DAMAGE THEN MIN_DAMAGE ELSE dmg

\* _map_damage(val, thr), in thousandths
map_damage(val, thr) ==
    LET delta == Max(0, val - thr * Scale)
        dmg == (delta * 1000) \div (DAMAGE_DIVISOR * Scale)
    IN  IF dmg < MIN_DAMAGE THEN MIN_DAMAGE
        ELSE IF dmg > MAX_DAMAGE THEN MAX_DAMAGE
        ELSE dmg

\* a full deque refusing the new entry
DequeAppend_keepold(q, e) ==
    IF Len(q) >= queue_maxlen THEN q ELSE Append(q, e)

\* deque(maxlen=queue_maxlen).append: a full deque drops its oldest entry
DequeAppend(q, e) ==
    IF Len(q) >= queue_maxlen THEN Append(Tail(q), e) ELSE Append(q, e)

\* self._events.append({...}); self._last_hit_ms[ch] = tick_ms
Emit ==
    /\ s_pc = "emit"
    /\ LET ch == channels[idx]
           ev == [channel |-> ch, value |-> latest[ch], signal |-> signal,
                  damage |-> map_damage(signal, eff_thr), timestamp_ms |-> tick_ms]
       IN  /\ events' = DequeAppend(events, ev)
           /\ last_hit_ms' = [last_hit_ms EXCEPT ![ch] = tick_ms]
           /\ emitted' = Append(emitted, [channel |-> ch, timestamp_ms |-> tick_ms,
                                          at |-> clock, signal |-> signal,
                                          eff_thr |-> eff_thr,
                                          evicted |-> Len(events) >= queue_maxlen])
    /\ s_pc' = AfterChannel
    /\ idx' = NextIdx
    /\ UNCHANGED <<clock, tick_ms, signal, eff_thr, latest, baseline, mask_until_ms,
                   boost_extra, boost_until_ms, e_call, ncalls, mask_log>>

\* the engine enters mask_channels(chs, duration_ms): now = int(time.time() * 1000)
MaskCall(chs, duration_ms) ==
    /\ e_call = Idle
    /\ e_call' = [op |-> "mask", now |-> clock, duration_ms |-> duration_ms,
                  chs |-> chs, todo |-> chs]
    /\ ncalls' = ncalls + 1
    /\ UNCHANGED <<clock, s_pc, tick_ms, idx, signal, eff_thr, latest, baseline,
                   last_hit_ms, mask_until_ms, boost_extra, boost_until_ms, events,
                   emitted, mask_log>>
    /\ UNCHANGED boost_log

\* MaskStep storing now + duration_ms whatever the mask in force
MaskStep_overwrite ==
    /\ e_call.op = "mask"
    /\ LET ch == Head(e_call.todo)
       IN  mask_until_ms' = [mask_until_ms EXCEPT
                                ![ch] = e_call.now + e_call.duration_ms]
    /\ IF Len(e_call.todo) > 1
       THEN /\ e_call' = [e_call EXCEPT !.todo = Tail(@)]
            /\ mask_log' = mask_log
       ELSE /\ e_call' = Idle
            /\ mask_log' = mask_log \cup
                   {[channel |-> e_call.chs[i], t |-> e_call.now, d |-> e_call.duration_ms] :
                       i \in 1..Len(e_call.chs)}
    /\ UNCHANGED <<clock, s_pc, tick_ms, idx, signal, eff_thr, latest, baseline,
                   last_hit_ms, boost_extra, boost_until_ms, events, ncalls, emitted>>
    /\ UNCHANGED boost_log

\* one round of its for loop: self._mask_until_ms[ch] = max(..., now + duration_ms);
\* after the last channel the call returns
MaskStep ==
    /\ e_call.op = "mask"
    /\ LET ch == Head(e_call.todo)
       IN  mask_until_ms' = [mask_until_ms EXCEPT
                                ![ch] = Max(@, e_call.now + e_call.duration_ms)]
    /\ IF Len(e_call.todo) > 1
       THEN /\ e_call' = [e_call EXCEPT !.todo = Tail(@)]
            /\ mask_log' = mask_log
       ELSE /\ e_call' = Idle
            /\ mask_log' = mask_log \cup
                   {[channel |-> e_call.chs[i], t |-> e_call.now, d |-> e_call.duration_ms] :
                       i \in 1..Len(e_call.chs)}
    /\ UNCHANGED <<clock, s_pc, tick_ms, idx, signal, eff_thr, latest, baseline,
                   last_hit_ms, boost_extra, boost_until_ms, events, ncalls, emitted>>
    /\ UNCHANGED boost_log

\* the engine enters boost_threshold(chs, extra, duration_ms)
BoostCall(chs, extra, duration_ms) ==
    /\ e_call = Idle
    /\ e_call' = [op |-> "boost_read", now |-> clock, duration_ms |-> duration_ms,
                  extra |-> extra, chs |-> chs, todo |-> chs, tmp |-> 0]
    /\ ncalls' = ncalls + 1
    /\ UNCHANGED <<clock, s_pc, tick_ms, idx, signal, eff_thr, latest, baseline,
                   last_hit_ms, mask_until_ms, boost_extra, boost_until_ms, events,
                   emitted, mask_log>>
    /\ UNCHANGED boost_log

\* max(int(extra), self._boost_extra.get(ch, 0)) is computed
BoostReadExtra ==
    /\ e_call.op = "boost_read"
    /\ e_call' = [e_call EXCEPT !.op = "boost_write",
                                !.tmp = Max(e_call.extra, boost_extra[Head(e_call.todo)])]
    /\ UNCHANGED <<clock, s_pc, tick_ms, idx, signal, eff_thr, latest, baseline,
                   last_hit_ms, mask_until_ms, boost_extra, boost_until_ms, events,
                   ncalls, emitted, mask_log>>
    /\ UNCHANGED boost_log

\* and stored: self._boost_extra[ch] = ...
BoostWriteExtra ==
    /\ e_call.op = "boost_write"
    /\ boost_extra' = [boost_extra EXCEPT ![Head(e_call.todo)] = e_call.tmp]
    /\ e_call' = [e_call EXCEPT !.op = "boost_until"]
    /\ UNCHANGED <<clock, s_pc, tick_ms, idx, signal, eff_thr, latest, baseline,
                   last_hit_ms, mask_until_ms, boost_until_ms, events, ncalls, emitted,
                   mask_log>>
    /\ UNCHANGED boost_log

\* self._boost_until_ms[ch] = max(..., now + duration_ms); after the last
\* channel the call returns
BoostWriteUntil ==
    /\ e_call.op = "boost_until"
    /\ boost_until_ms' = [boost_until_ms EXCEPT
                             ![Head(e_call.todo)] = Max(@, e_call.now + e_call.duration_ms)]
    /\ e_call' = IF Len(e_call.todo) > 1
                 THEN [e_call EXCEPT !.op = "boost_read", !.todo = Tail(@)]
                 ELSE Idle
    /\ UNCHANGED <<clock, s_pc, tick_ms, idx, signal, eff_thr, latest, baseline,
                   last_hit_ms, mask_until_ms, boost_extra, events, ncalls, emitted,
                   mask_log>>
    /\ boost_log' = IF Len(e_call.todo) > 1
                    THEN boost_log
                    ELSE boost_log \cup
                           {[channel |-> e_call.chs[i], t |-> e_call.now,
                             d |-> e_call.duration_ms, extra |-> e_call.extra,
                             ret |-> clock] : i \in 1..Len(e_call.chs)}

Min(a, b) == IF a < b THEN a ELSE b

\* the engine enters pop_events(max_items): n = min(max_items, len(self._events));
\* with n = 0 the empty list is returned at once
PopCall(max_items) ==
    /\ p_call.op = "none"
    /\ npops < MaxPops
    /\ npops' = npops + 1
    /\ LET n == Min(max_items, Len(events))
       IN  IF n > 0
           THEN /\ p_call' = [op |-> "pop", max_items |-> max_items, n |-> n, got |-> <<>>]
                /\ returned' = returned
           ELSE /\ p_call' = [op |-> "none"]
                /\ returned' = Append(returned, [max_items |-> max_items, list |-> <<>>])
    /\ UNCHANGED samplerVars

\* self._events[0] read and left in the deque
PopLeft_peek(q) == [item |-> Head(q), rest |-> q]

\* self._events.pop() in place of popleft()
PopLeft_right(q) == [item |-> q[Len(q)], rest |-> SubSeq(q, 1, Len(q) - 1)]

\* self._events.popleft()
PopLeft(q) == [item |-> Head(q), rest |-> Tail(q)]

\* one self._events.popleft() of the list comprehension; on an empty deque it
\* raises IndexError; after the n-th the list is returned
PopStep ==
    /\ p_call.op = "pop"
    /\ IF events = <<>>
       THEN /\ p_call' = [p_call EXCEPT !.op = "raised"]
            /\ UNCHANGED <<events, returned>>
       ELSE \E r \in {PopLeft(events)} :
             /\ events' = r.rest
             /\ IF Len(p_call.got) + 1 < p_call.n
                THEN /\ p_call' = [p_call EXCEPT !.got = Append(@, r.item)]
                     /\ returned' = returned
                ELSE /\ p_call' = [op |-> "none"]
                     /\ returned' = Append(returned,
                            [max_items |-> p_call.max_items,
                             list |-> Append(p_call.got, r.item)])
    /\ npops' = npops
    /\ UNCHANGED <<clock, s_pc, tick_ms, idx, signal, eff_thr, latest, baseline,
                   last_hit_ms, mask_until_ms, boost_extra, boost_until_ms, e_call,
                   ncalls, emitted, mask_log>>

\* a call _map_damage(val, thr) and its result
MapCall(val, thr) ==
    /\ md_val' = val
    /\ md_thr' = thr
    /\ md_dmg' = map_damage(val, thr)

\* no call of _map_damage made by hand
MapIdle ==
    /\ md_val = 0
    /\ md_thr = threshold
    /\ md_dmg = map_damage(0, threshold)

NoBoost == boost_log = {}

NoLife ==
    /\ stop_flag = FALSE
    /\ spi_open = TRUE
    /\ l_call = [op |-> "none"]
    /\ nlife = 0
    /\ life_log = <<>>

\* the first start() of the sampler
Launch ==
    /\ s_pc = "new"
    /\ start
    /\ UNCHANGED exceptSamplerLife

NoPop ==
    /\ p_call = [op |-> "none"]
    /\ npops = 0
    /\ returned = <<>>

\* PiezoSensorReader(channels) has been constructed
Built ==
    /\ c_channels = channels
    /\ c_pc = "built"
    /\ c_spi = TRUE
    /\ c_task = "created"
    /\ c_idx = 1
    /\ c_reads = 0
    /\ c_error = "none"

(***************************************************************************)
(* servo_contoller.py                                                      *)
(***************************************************************************)
neutral_deg == 90
neutral_us == 1500

\* _pulse_to_duty(pulse_ms): pulse / 20 ms * 100, from microseconds to
\* thousandths of a percent
_pulse_to_duty(pulse_us) == (pulse_us * 100 * 1000) \div 20000

\* _angle_to_pulse_ms(angle_deg): the angle clamped to 0..180 and mapped onto
\* 1.0..2.0 ms; in microseconds
_angle_to_pulse_ms(angle_deg) ==
    LET a == Max(0, Min(180, angle_deg))
    IN  1000 + ((2000 - 1000) * a) \div 180

\* the state FighterActuators(arm_pin, leg_pin, wheel_pin) leaves: the limbs
\* parked at neutral, the wheel stopped, the lock free
ServoInit ==
    /\ v_clock = T0
    /\ a_lock = 0
    /\ a_pc = [t \in Callers |-> "idle"]
    /\ a_arg = [t \in Callers |-> [servo |-> "arm", swing_deg |-> 90, hold_ms |-> 200,
                                   cooldown_ms |-> 500]]
    /\ a_since = [t \in Callers |-> 0]
    /\ a_result = [t \in Callers |-> "none"]
    /\ a_ncmd = [t \in Callers |-> 0]
    /\ nattacks = 0
    /\ macro_angle = [l \in ServoLimbs |-> neutral_deg]
    /\ duty_cycle = [o \in ServoOutputs |->
                  IF o = "wheel" THEN _pulse_to_duty(neutral_us)
                  ELSE _pulse_to_duty(_angle_to_pulse_ms(neutral_deg))]
    /\ enabled = [o \in ServoOutputs |-> TRUE]
    /\ gpio_clean = FALSE
    /\ sd_pc = "idle"
    /\ sd_posed = {}
    /\ cmd_last = [by |-> 0, out |-> "wheel", on |-> TRUE]

\* ServoPWM.set_pulse_ms(pulse_ms) on output o, called by thread by (0 is the
\* thread in shutdown)
set_pulse_ms(by, o, pulse_us) ==
    /\ duty_cycle' = [duty_cycle EXCEPT ![o] = _pulse_to_duty(pulse_us)]
    /\ cmd_last' = [by |-> by, out |-> o, on |-> enabled[o]]

\* time passes
ServoTick ==
    /\ v_clock + ServoStepMs <= T0 + MaxServoSteps * ServoStepMs
    /\ v_clock' = v_clock + ServoStepMs
    /\ UNCHANGED <<a_lock, a_pc, a_arg, a_since, a_result, a_ncmd, nattacks, macro_angle,
                   duty_cycle, enabled, gpio_clean, sd_pc, sd_posed, cmd_last>>

\* thread t calls _attack(servo, swing_deg=, hold_ms=, cooldown_ms=)
AttackCall(t, servo, swing_deg, hold_ms, cooldown_ms) ==
    /\ a_pc[t] = "idle"
    /\ a_pc' = [a_pc EXCEPT ![t] = "acquire"]
    /\ a_arg' = [a_arg EXCEPT ![t] = [servo |-> servo, swing_deg |-> swing_deg,
                                      hold_ms |-> hold_ms, cooldown_ms |-> cooldown_ms]]
    /\ a_result' = [a_result EXCEPT ![t] = "none"]
    /\ a_ncmd' = [a_ncmd EXCEPT ![t] = 0]
    /\ nattacks' = nattacks + 1
    /\ UNCHANGED <<v_clock, a_lock, a_since, macro_angle, duty_cycle, enabled, gpio_clean,
                   sd_pc, sd_posed, cmd_last>>

\* punch(swing_deg=) and kick(swing_deg=): _attack on the arm, on the leg, with
\* its default hold_ms and cooldown_ms
punch(t, swing_deg) == AttackCall(t, "arm", swing_deg, 200, 500)
kick(t, swing_deg) == AttackCall(t, "leg", swing_deg, 200, 500)

\* the lock taken whoever holds it
LockFree_always(lock) == TRUE

\* threading.Lock: acquired only when no thread holds it
LockFree(lock) == lock = 0

\* "with self._attack_lock:" is entered
AttackAcquire(t) ==
    /\ a_pc[t] = "acquire"
    /\ LockFree(a_lock)
    /\ a_lock' = t
    /\ a_pc' = [a_pc EXCEPT ![t] = "swing"]
    /\ UNCHANGED <<v_clock, a_arg, a_since, a_result, a_ncmd, nattacks, macro_angle,
                   duty_cycle, enabled, gpio_clean, sd_pc, sd_posed, cmd_last>>

\* servo.goto(servo.neutral_deg + swing_deg), then time.sleep(hold_ms / 1000.0)
\* begins
AttackSwing(t) ==
    /\ a_pc[t] = "swing"
    /\ LET angle_deg == neutral_deg + a_arg[t].swing_deg
       IN  /\ set_pulse_ms(t, a_arg[t].servo, _angle_to_pulse_ms(angle_deg))
           /\ macro_angle' = [macro_angle EXCEPT ![a_arg[t].servo] = angle_deg]
    /\ a_ncmd' = [a_ncmd EXCEPT ![t] = @ + 1]
    /\ a_since' = [a_since EXCEPT ![t] = v_clock]
    /\ a_pc' = [a_pc EXCEPT ![t] = "hold"]
    /\ UNCHANGED <<v_clock, a_lock, a_arg, a_result, nattacks, enabled, gpio_clean,
                   sd_pc, sd_posed>>

\* time.sleep with a negative length raises ValueError; the with statement
\* releases the lock and the call ends with the error
AttackSleepRaises(t) ==
    /\ \/ a_pc[t] = "hold" /\ a_arg[t].hold_ms < 0
       \/ a_pc[t] = "cooldown" /\ a_arg[t].cooldown_ms < 0
    /\ a_lock' = 0
    /\ a_pc' = [a_pc EXCEPT ![t] = "idle"]
    /\ a_result' = [a_result EXCEPT ![t] = "raised"]
    /\ UNCHANGED <<v_clock, a_arg, a_since, a_ncmd, nattacks, macro_angle, duty_cycle, enabled,
                   gpio_clean, sd_pc, sd_posed, cmd_last>>

\* the sleep of hold_ms has returned
HoldOver(t) ==
    /\ a_pc[t] = "hold"
    /\ a_arg[t].hold_ms >= 0
    /\ v_clock - a_since[t] >= a_arg[t].hold_ms

\* servo.neutral() after the hold, then time.sleep(cooldown_ms / 1000.0) begins
AttackRetract(t) ==
    /\ HoldOver(t)
    /\ set_pulse_ms(t, a_arg[t].servo, _angle_to_pulse_ms(neutral_deg))
    /\ macro_angle' = [macro_angle EXCEPT ![a_arg[t].servo] = neutral_deg]
    /\ a_ncmd' = [a_ncmd EXCEPT ![t] = @ + 1]
    /\ a_since' = [a_since EXCEPT ![t] = v_clock]
    /\ a_pc' = [a_pc EXCEPT ![t] = "cooldown"]
    /\ UNCHANGED <<v_clock, a_lock, a_arg, a_result, nattacks, enabled, gpio_clean,
                   sd_pc, sd_posed>>

\* a pulse command that arrives at a stopped PWM may also raise: the call
\* ends with the error and the with statement releases the lock
AttackCommandRaises(t) ==
    /\ a_pc[t] = "swing" \/ HoldOver(t)
    /\ ~enabled[a_arg[t].servo]
    /\ cmd_last' = [by |-> t, out |-> a_arg[t].servo, on |-> FALSE]
    /\ a_ncmd' = [a_ncmd EXCEPT ![t] = @ + 1]
    /\ a_lock' = 0
    /\ a_pc' = [a_pc EXCEPT ![t] = "idle"]
    /\ a_result' = [a_result EXCEPT ![t] = "raised"]
    /\ UNCHANGED <<v_clock, a_arg, a_since, nattacks, macro_angle, duty_cycle, enabled,
                   gpio_clean, sd_pc, sd_posed>>

\* the cooldown is over: the with statement releases the lock, _attack returns
AttackRelease(t) ==
    /\ a_pc[t] = "cooldown"
    /\ a_arg[t].cooldown_ms >= 0
    /\ v_clock - a_since[t] >= a_arg[t].cooldown_ms
    /\ a_lock' = 0
    /\ a_pc' = [a_pc EXCEPT ![t] = "idle"]
    /\ a_result' = [a_result EXCEPT ![t] = "ok"]
    /\ UNCHANGED <<v_clock, a_arg, a_since, a_ncmd, nattacks, macro_angle, duty_cycle, enabled,
                   gpio_clean, sd_pc, sd_posed, cmd_last>>

\* shutdown() is called
ShutdownCall ==
    /\ sd_pc = "idle"
    /\ sd_pc' = "arm_neutral"
    /\ UNCHANGED <<v_clock, a_lock, a_pc, a_arg, a_since, a_result, a_ncmd, nattacks,
                   macro_angle, duty_cycle, enabled, gpio_clean, sd_posed, cmd_last>>

\* return_to_neutral(): self.arm.neutral(), self.leg.neutral(), self.wheel.stop(),
\* one command per step
ShutdownPose ==
    /\ \/ /\ sd_pc = "arm_neutral"
          /\ set_pulse_ms(0, "arm", _angle_to_pulse_ms(neutral_deg))
          /\ sd_posed' = sd_posed \cup {"arm"}
          /\ sd_pc' = "leg_neutral"
       \/ /\ sd_pc = "leg_neutral"
          /\ set_pulse_ms(0, "leg", _angle_to_pulse_ms(neutral_deg))
          /\ sd_posed' = sd_posed \cup {"leg"}
          /\ sd_pc' = "wheel_stop"
       \/ /\ sd_pc = "wheel_stop"
          /\ set_pulse_ms(0, "wheel", neutral_us)
          /\ sd_posed' = sd_posed \cup {"wheel"}
          /\ sd_pc' = "arm_off"
    /\ UNCHANGED <<v_clock, a_lock, a_pc, a_arg, a_since, a_result, a_ncmd, nattacks,
                   macro_angle, enabled, gpio_clean>>

\* self.arm.stop(), self.leg.stop(): ServoPWM.stop() sets the duty cycle to
\* 0, stops the PWM and makes the pin an input
ShutdownLimbOff ==
    /\ sd_pc \in {"arm_off", "leg_off"}
    /\ LET o == IF sd_pc = "arm_off" THEN "arm" ELSE "leg"
       IN  /\ duty_cycle' = [duty_cycle EXCEPT ![o] = 0]
           /\ enabled' = [enabled EXCEPT ![o] = FALSE]
    /\ sd_pc' = IF sd_pc = "arm_off" THEN "leg_off" ELSE "wheel_halt"
    /\ UNCHANGED <<v_clock, a_lock, a_pc, a_arg, a_since, a_result, a_ncmd, nattacks,
                   macro_angle, gpio_clean, sd_posed, cmd_last>>

\* self.wheel.halt(): the stop pulse once more, then ServoPWM.stop()
ShutdownWheelHalt ==
    /\ sd_pc = "wheel_halt"
    /\ cmd_last' = [by |-> 0, out |-> "wheel", on |-> enabled["wheel"]]
    /\ duty_cycle' = [duty_cycle EXCEPT !["wheel"] = 0]
    /\ enabled' = [enabled EXCEPT !["wheel"] = FALSE]
    /\ sd_pc' = "cleanup"
    /\ UNCHANGED <<v_clock, a_lock, a_pc, a_arg, a_since, a_result, a_ncmd, nattacks,
                   macro_angle, gpio_clean, sd_posed>>

\* GPIO.cleanup(), and shutdown() returns
ShutdownCleanup ==
    /\ sd_pc = "cleanup"
    /\ gpio_clean' = TRUE
    /\ sd_pc' = "done"
    /\ UNCHANGED <<v_clock, a_lock, a_pc, a_arg, a_since, a_result, a_ncmd, nattacks,
                   macro_angle, duty_cycle, enabled, sd_posed, cmd_last>>

\* the first round of the session
FirstRound ==
    /\ nround = 0
    /\ wins = [p \in Players |-> 0]
    /\ round_t0 = T0
    /\ prev_end = [hp |-> STARTING_HP, swinging |-> FALSE, hit |-> FALSE]

\* no channel has been read yet
Unread == [c \in ChannelSet |-> -1]

\* a read of a channel that returns what every earlier read of it returned
RestRead(val) ==
    /\ s_pc = "read"
    /\ resting[channels[idx]] \in {-1, val}
    /\ ReadChannel(val)
    /\ resting' = [resting EXCEPT ![channels[idx]] = val]

\* the state outside game_loop and the sampler
Rest == Built /\ ServoInit /\ FirstRound /\ resting = Unread

\* __init__(channels): an empty channel tuple raises ValueError; everything
\* else is stored, the thread object is created and the bus is opened
Construct ==
    /\ c_pc = "call"
    /\ IF c_channels = <<>>
       THEN /\ c_pc' = "raised"
            /\ c_error' = "constructor"
            /\ UNCHANGED <<c_spi, c_task>>
       ELSE /\ c_pc' = "built"
            /\ c_task' = "created"
            /\ c_spi' = TRUE
            /\ UNCHANGED c_error
    /\ UNCHANGED <<c_channels, c_idx, c_reads>>

\* start() on the constructed reader
CtorStart ==
    /\ c_pc = "built"
    /\ c_task = "created"
    /\ c_task' = "running"
    /\ UNCHANGED <<c_channels, c_pc, c_spi, c_idx, c_reads, c_error>>

\* _read_adc(ch): "if not (0 <= ch <= 7): raise ValueError"
ChannelInRange(ch) == 0 <= ch /\ ch <= 7

\* the sampling thread reads the next channel of self.channels; a ValueError
\* of _read_adc leaves _loop and ends the thread
CtorRead ==
    /\ c_task = "running"
    /\ c_reads < MaxCtorReads
    /\ IF ChannelInRange(c_channels[c_idx])
       THEN /\ c_idx' = IF c_idx < Len(c_channels) THEN c_idx + 1 ELSE 1
            /\ c_reads' = c_reads + 1
            /\ UNCHANGED <<c_task, c_error>>
       ELSE /\ c_task' = "crashed"
            /\ c_error' = "task"
            /\ UNCHANGED <<c_idx, c_reads>>
    /\ UNCHANGED <<c_channels, c_pc, c_spi>>

NoFault ==
    /\ read_errors = 0
    /\ session = "running"
    /\ raised_by = 0
    /\ released = FALSE

Init == GameInit /\ SamplerInit /\ MapIdle /\ NoFault /\ NoPop /\ NoLife /\ NoBoost /\ Rest

NoForce == [p \in Players |-> 0]

\* the round under every button input, the force sensors at rest
Next ==
    \E b \in ButtonInputs :
        /\ now + TickMs <= T0 + MaxTicks * TickMs
        /\ Tick(TickMs, b, NoForce)
        /\ UNCHANGED exceptGame

Spec == Init /\ [][Next]_vars

\* the round under every force reading, no button pressed
FightNext ==
    \E f \in ForceInputs :
        /\ now + FightTickMs <= T0 + MaxFightTicks * FightTickMs
        /\ Tick(FightTickMs, {}, f)
        /\ UNCHANGED exceptGame

FightSpec == Init /\ [][FightNext]_vars

\* the same with ticks inside the hit cooldown
CooldownNext ==
    \E dt \in CooldownTickDeltas, f \in ForceInputs :
        /\ now + dt <= T0 + MaxCooldownMs
        /\ Tick(dt, {}, f)
        /\ UNCHANGED exceptGame

CooldownSpec == Init /\ [][CooldownNext]_vars

\* the sampling thread, the clock and the engine's mask and boost calls
SamplerStep ==
    \/ LoopTick
    \/ \E val \in PiezoInputs : ReadChannel(val)
    \/ BoostTest
    \/ BoostClear
    \/ ThresholdTest
    \/ Emit

EngineStep ==
    \/ /\ ncalls < MaxCalls
       /\ \E chs \in CallChannels, d \in CallDurations : MaskCall(chs, d)
    \/ MaskStep
    \/ /\ ncalls < MaxCalls
       /\ \E chs \in CallChannels, x \in BoostExtras, d \in CallDurations :
              BoostCall(chs, x, d)
    \/ BoostReadExtra
    \/ BoostWriteExtra
    \/ BoostWriteUntil

SamplerNext ==
    \/ Launch
    \/ /\ \/ Advance
          \/ SamplerStep
       /\ UNCHANGED exceptSampler
    \/ /\ EngineStep
       /\ UNCHANGED exceptSamplerBoost

SamplerSpec == Init /\ [][SamplerNext]_vars

\* _map_damage alone, called again and again with every signal and threshold
MapInit ==
    /\ GameInit
    /\ SamplerInit
    /\ md_val \in MapSignals
    /\ md_thr \in MapThresholds
    /\ md_dmg = map_damage(md_val, md_thr)
    /\ NoFault
    /\ NoPop
    /\ NoLife
    /\ NoBoost
    /\ Rest

MapNext ==
    /\ \E val \in MapSignals, thr \in MapThresholds : MapCall(val, thr)
    /\ UNCHANGED <<gameVars, samplerVars, faultVars, crashVars, popVars, lifeVars,
                   boostVars, restVars>>

MapSpec == MapInit /\ [][MapNext]_vars

\* the sampling thread alone, any of its reads may raise
FaultNext ==
    \/ Launch
    \/ /\ \/ Advance
          \/ SamplerStep
       /\ UNCHANGED exceptSampler
    \/ /\ ReadRaises
       /\ UNCHANGED <<gameVars, mapVars, crashVars, popVars, lifeVars, boostVars,
                      restVars>>

FaultSpec == Init /\ [][FaultNext]_vars

\* the round under every force reading, any read_force() may raise
RoundFaultNext ==
    /\ now + FightTickMs <= T0 + MaxFaultTicks * FightTickMs
    /\ \/ /\ session = "running"
          /\ \E f \in ForceInputs : Tick(FightTickMs, {}, f)
          /\ UNCHANGED crashVars
       \/ \E f \in ForceInputs, who \in Players : ReadForceRaises(FightTickMs, {}, f, who)
    /\ UNCHANGED <<samplerVars, mapVars, read_errors, popVars, lifeVars, boostVars,
                   restVars>>

RoundFaultSpec == Init /\ [][RoundFaultNext]_vars

\* the sampling thread and the engine draining the queue with pop_events
QueueNext ==
    \/ Launch
    \/ /\ \/ Advance
          \/ SamplerStep
       /\ UNCHANGED exceptSampler
    \/ /\ \/ \E max_items \in PopSizes : PopCall(max_items)
          \/ PopStep
       /\ UNCHANGED <<gameVars, mapVars, faultVars, crashVars, lifeVars, boostVars,
                      restVars>>

QueueSpec == Init /\ [][QueueNext]_vars

\* the sampling thread under the engine's start() and stop() calls; a read on
\* the closed bus raises
LifeNext ==
    \/ /\ \/ start
          \/ StopCall
          \/ StopJoin
          \/ StopClose
       /\ UNCHANGED exceptSamplerLife
    \/ /\ \/ Elapse
          \/ LoopTick
          \/ LoopExit
          \/ spi_open /\ \E val \in PiezoInputs : ReadChannel(val)
          \/ BoostTest
          \/ BoostClear
          \/ ThresholdTest
          \/ Emit
       /\ UNCHANGED exceptSampler
    \/ /\ ~spi_open
       /\ ReadRaises
       /\ UNCHANGED <<gameVars, mapVars, crashVars, popVars, lifeVars, boostVars,
                      restVars>>

LifeSpec == Init /\ [][LifeNext]_vars

\* the sampling thread and an engine that boosts channel 0 again and again
ExpiryNext ==
    \/ Launch
    \/ /\ \/ Lapse
          \/ LoopTick
          \/ \E val \in ExpiryInputs : ReadChannel(val)
          \/ BoostTest
          \/ BoostClear
          \/ ThresholdTest
          \/ Emit
       /\ UNCHANGED exceptSampler
    \/ /\ \/ /\ ncalls < MaxBoosts
             /\ \E chs \in ExpiryChannels, x \in ExpiryExtras, d \in CallDurations :
                    BoostCall(chs, x, d)
          \/ BoostReadExtra
          \/ BoostWriteExtra
          \/ BoostWriteUntil
       /\ UNCHANGED exceptSamplerBoost

ExpirySpec == Init /\ [][ExpiryNext]_vars

\* the constructor called with every channel tuple, then start() and the
\* sampling thread's reads
CtorInit ==
    /\ GameInit
    /\ SamplerInit
    /\ MapIdle
    /\ NoFault
    /\ NoPop
    /\ NoLife
    /\ NoBoost
    /\ c_channels \in CtorChannels
    /\ c_pc = "call"
    /\ c_spi = FALSE
    /\ c_task = "none"
    /\ c_idx = 1
    /\ c_reads = 0
    /\ c_error = "none"
    /\ resting = Unread
    /\ ServoInit
    /\ FirstRound

CtorNext ==
    /\ \/ Construct
       \/ CtorStart
       \/ CtorRead
    /\ UNCHANGED exceptCtor

CtorSpec == CtorInit /\ [][CtorNext]_vars

\* one FighterActuators under two threads calling _attack with every argument
AttackNext ==
    /\ \/ ServoTick
       \/ /\ nattacks < MaxAttacks
          /\ \E t \in Callers, servo \in ServoLimbs, swing_deg \in SwingDegs,
                hold_ms \in HoldArgs, cooldown_ms \in CooldownArgs :
                 AttackCall(t, servo, swing_deg, hold_ms, cooldown_ms)
       \/ \E t \in Callers : AttackAcquire(t)
       \/ \E t \in Callers : AttackSwing(t)
       \/ \E t \in Callers : AttackSleepRaises(t)
       \/ \E t \in Callers : AttackRetract(t)
       \/ \E t \in Callers : AttackRelease(t)
    /\ UNCHANGED exceptServo

AttackSpec == Init /\ [][AttackNext]_vars

\* one FighterActuators under two threads calling punch() and kick() and a
\* third calling shutdown()
ShutdownNext ==
    /\ \/ ServoTick
       \/ /\ nattacks < MaxAttacks
          /\ \E t \in Callers, swing_deg \in SwingDegs :
                 punch(t, swing_deg) \/ kick(t, swing_deg)
       \/ \E t \in Callers : AttackAcquire(t)
       \/ \E t \in Callers : AttackSwing(t)
       \/ \E t \in Callers : AttackRetract(t)
       \/ \E t \in Callers : AttackCommandRaises(t)
       \/ \E t \in Callers : AttackRelease(t)
       \/ ShutdownCall
       \/ ShutdownPose
       \/ ShutdownLimbOff
       \/ ShutdownWheelHalt
       \/ ShutdownCleanup
    /\ UNCHANGED exceptServo

ShutdownSpec == Init /\ [][ShutdownNext]_vars

\* the session: rounds under attack buttons and force readings, a rematch
\* after each knockout, and its end by Ctrl+C or by a read error
SessionNext ==
    \/ /\ session = "running"
       /\ now + FightTickMs <= round_t0 + MaxRoundTicks * FightTickMs
       /\ \E b \in SessionButtons, f \in SessionForces : Tick(FightTickMs, b, f)
       /\ UNCHANGED exceptGame
    \/ /\ NewRound
       /\ UNCHANGED <<samplerVars, mapVars, faultVars, crashVars, popVars, lifeVars,
                      boostVars, ctorVars, servoVars, restingVars>>
    \/ /\ Interrupt
       /\ UNCHANGED <<samplerVars, mapVars, faultVars, popVars, lifeVars, boostVars,
                      restVars>>
    \/ /\ now + FightTickMs <= round_t0 + MaxRoundTicks * FightTickMs
       /\ \E b \in SessionButtons, f \in SessionForces, who \in Players :
              ReadForceRaises(FightTickMs, b, f, who)
       /\ UNCHANGED <<samplerVars, mapVars, faultVars, popVars, lifeVars, boostVars,
                      restVars>>

SessionSpec == Init /\ [][SessionNext]_vars

\* the sampling thread alone, every channel reading one constant from its
\* first tick on
RestNext ==
    \/ Launch
    \/ /\ \/ Lapse
          \/ LoopTick
          \/ BoostTest
          \/ BoostClear
          \/ ThresholdTest
          \/ Emit
       /\ UNCHANGED exceptSampler
    \/ /\ \E val \in RestInputs : RestRead(val)
       /\ UNCHANGED <<gameVars, mapVars, faultVars, crashVars, popVars, lifeVars,
                      boostVars, ctorVars, servoVars, roundVars>>

RestSpec == Init /\ [][RestNext]_vars

\* mask_channels called again and again as time passes
MaskNext ==
    \/ /\ Lapse
       /\ UNCHANGED exceptSampler
    \/ /\ \/ /\ ncalls < MaxMasks
             /\ \E chs \in CallChannels, d \in MaskDurations : MaskCall(chs, d)
          \/ MaskStep
       /\ UNCHANGED exceptSamplerBoost

MaskSpec == Init /\ [][MaskNext]_vars

\* a step of the sampling thread, its sleep included; a read on the closed bus
\* raises
TaskStep ==
    \/ /\ \/ clock < T0 + MaxTermMs /\ LoopTick
          \/ LoopExit
          \/ SleepOver
          \/ spi_open /\ \E val \in ExpiryInputs : ReadChannel(val)
          \/ BoostTest
          \/ BoostClear
          \/ ThresholdTest
          \/ Emit
       /\ UNCHANGED exceptSampler
    \/ /\ ~spi_open
       /\ ReadRaises
       /\ UNCHANGED <<gameVars, mapVars, crashVars, popVars, lifeVars, boostVars,
                      restVars>>

\* start() and stop() calls of the engine around the sampling thread
TermNext ==
    \/ /\ \/ start
          \/ StopCall
          \/ StopJoin
          \/ StopClose
       /\ UNCHANGED exceptSamplerLife
    \/ /\ Elapse
       /\ UNCHANGED exceptSampler
    \/ TaskStep

\* the thread is scheduled again and again, its reads and its sleep return
TermSpec == Init /\ [][TermNext]_vars /\ WF_vars(TaskStep)

(***************************************************************************)
(* Properties of game_loop                                                 *)
(***************************************************************************)
MoveOutputsStopped(p) ==
    pwm[<<p, "move_left">>] = MOVE_STOP /\ pwm[<<p, "move_right">>] = MOVE_STOP

BothDrivePressed(p, b) == <<p, "left">> \in b /\ <<p, "right">> \in b

\* C1: after every tick, a player whose left and right drive buttons were
\* both pressed on that tick has the stop command on both drive outputs.
C1_BothPressedStops ==
    \A p \in Players : BothDrivePressed(p, btn) => MoveOutputsStopped(p)

\* total damage handed to take_damage of fighter p
Dealt(p) ==
    3 * taken[p][3] + 4 * taken[p][4] + 5 * taken[p][5] + 6 * taken[p][6] + 7 * taken[p][7]

\* C2: in every state of a round each fighter's hp is within [0, STARTING_HP].
C2_HpInRange == \A p \in Players : 0 <= hp[p] /\ hp[p] <= STARTING_HP

\* a fighter clamped at 0 by a damage above its remaining hp, the other untouched
C2_Witness ==
    \E p \in Players :
        hp[p] = 0 /\ Dealt(p) > STARTING_HP /\ hp[Other(p)] = STARTING_HP

\* C3: no step of game_loop raises a fighter's hp, and a damage larger than
\* the remaining hp leaves hp at exactly 0.
C3_HpNeverIncreases ==
    [][\A p \in Players :
          /\ hp'[p] <= hp[p]
          /\ (Dealt(p)' - Dealt(p) > hp[p] => hp'[p] = 0)]_vars

\* seven hits of 7 left hp at 1 and a hit of 5 then clamped it to 0
C3_Witness == \E p \in Players : taken[p][7] = 7 /\ taken[p][5] = 1 /\ hp[p] = 0

InCmds(c, s) == \E i \in 1..Len(s) : s[i] = c
SwingCmd(l) == <<<<l[1], ArmOf(l[2])>>, AngleDuty(ARM_ATTACK)>>
NeutralCmd(l) == <<<<l[1], ArmOf(l[2])>>, AngleDuty(NeutralOf(l[2]))>>
AtkButton(l) == <<l[1], AtkButtonOf(l[2])>>

\* C4: a limb that is Swinging before a tick has not yet passed the attack
\* duration; on a tick whose elapsed time since the start of the swing has
\* passed the duration it is commanded to neutral and becomes Idle, on every
\* earlier tick it stays Swinging with its timer untouched, and on neither
\* is the attack angle commanded to it (outside the knockout pose).
C4_SwingEndsOnTime ==
    [][now' > now =>
         \A l \in Limbs :
            attacking[l] =>
              /\ now - timer[l] <= attack_duration
              /\ timer'[l] = timer[l]
              /\ (winner' = "none" => ~InCmds(SwingCmd(l), cmds'))
              /\ IF now' - timer[l] > attack_duration
                 THEN ~attacking'[l] /\ InCmds(NeutralCmd(l), cmds')
                 ELSE attacking'[l] /\ ~InCmds(NeutralCmd(l), cmds')]_vars

\* a limb retracted on the tick that passed the duration, its button held
C4_Witness ==
    \E l \in Limbs :
        /\ ~attacking[l]
        /\ timer[l] > 0
        /\ now - timer[l] > attack_duration
        /\ now - timer[l] <= attack_duration + TickMs
        /\ InCmds(NeutralCmd(l), cmds)
        /\ AtkButton(l) \in btn

\* C5: a swing starts (the limb's timer is restarted) only on a tick where
\* the limb is Idle and its attack button is pressed after having been
\* released on the previous tick.
C5_SwingOnlyOnRisingEdge ==
    [][\A l \in Limbs :
          timer'[l] # timer[l] =>
             /\ ~attacking[l]
             /\ AtkButton(l) \in btn'
             /\ AtkButton(l) \notin btn]_vars

\* C6: on every tick and for each fighter, a damaging reading is applied (hp
\* lowered by the damage, the cooldown clock set to the tick) when more than
\* hit_cooldown has passed since the fighter's previously applied damage, and
\* otherwise hp and the cooldown clock are unchanged.
C6_HitCooldown ==
    [][\A dt \in CooldownTickDeltas, f \in ForceInputs :
          Tick(dt, {}, f) =>
             \A p \in Players :
                IF calculate_damage(f[p]) > 0 /\ now' - last_hit[p] > hit_cooldown
                THEN /\ hp'[p] = Max(0, hp[p] - calculate_damage(f[p]))
                     /\ last_hit'[p] = now'
                ELSE /\ hp'[p] = hp[p]
                     /\ last_hit'[p] = last_hit[p]]_vars

\* hp 50, damage 5 applied, a damaging reading 50 ms later ignored, damage 5
\* applied again 350 ms after the first: hp 40
C6_Witness ==
    \E p \in Players :
        /\ hp[p] = 40
        /\ taken[p][5] = 2
        /\ ignored[p] = 1
        /\ last_hit[p] = now
        /\ now = T0 + 400

OnlyFives(p) == \A d \in Damages \ {5} : taken[p][d] = 0

\* C7: a fighter that has taken only hits of damage 5 has hp 50 - 5n after n
\* of them: above 0 (and the opponent not declared winner) before the tenth,
\* exactly 0 at the tenth, on whose tick game_loop returns, naming the
\* opponent (still standing) as the winner.
C7_TenHitsKnockOut ==
    \A p \in Players :
        OnlyFives(p) =>
          /\ hp[p] = STARTING_HP - 5 * taken[p][5]
          /\ (taken[p][5] < 10 => hp[p] > 0 /\ winner # PlayerName(Other(p)))
          /\ (taken[p][5] = 10 =>
                /\ hp[p] = 0
                /\ winner # "none"
                /\ (hp[Other(p)] > 0 => winner = PlayerName(Other(p))))

C7_Witness ==
    \E p \in Players :
        /\ OnlyFives(p)
        /\ taken[p][5] = 10
        /\ hp[p] = 0
        /\ hp[Other(p)] > 0
        /\ winner = PlayerName(Other(p))

\* C8: on every channel of the sampler, two hit events emitted one after the
\* other carry timestamps at least hit_debounce_ms apart, whatever the
\* readings and whatever mask and boost calls the engine makes.
C8_DebounceSpacing ==
    \A i, j \in 1..Len(emitted) :
        i < j /\ emitted[i].channel = emitted[j].channel
            => emitted[j].timestamp_ms - emitted[i].timestamp_ms >= hit_debounce_ms

\* two events of one channel exactly a debounce window apart, a call made
C8_Witness ==
    /\ ncalls > 0
    /\ \E i, j \in 1..Len(emitted) :
          /\ i < j
          /\ emitted[i].channel = emitted[j].channel
          /\ emitted[j].timestamp_ms - emitted[i].timestamp_ms = hit_debounce_ms

\* C9: once mask_channels(channels, D) has been called at time t, no hit
\* event of one of those channels is appended to the event queue at a moment
\* in [t, t+D), however the call interleaves with a tick in progress.  The
\* calls looked at are those that have already returned.
C9_NoEventWhileMasked ==
    [][\A m \in mask_log :
          Len(emitted') > Len(emitted) =>
              LET e == emitted'[Len(emitted')]
              IN  ~(e.channel = m.channel /\ m.t <= e.at /\ e.at < m.t + m.d)]_vars

\* C10: a tick on which the filtered signal of a channel is not above the
\* base threshold plus the boost in force at the tick's comparison emits no
\* hit event for that channel; an event is only ever appended for the
\* channel, and with the signal, that passed that comparison.
C10_NoEventBelowThreshold ==
    [][/\ (s_pc = "threshold" /\ signal <= (threshold + boost_extra[channels[idx]]) * Scale)
            => s_pc' # "emit" /\ emitted' = emitted
       /\ (s_pc' = "emit" /\ s_pc # "emit") => s_pc = "threshold" /\ idx' = idx /\ signal' = signal
       /\ (s_pc = "emit" /\ s_pc' = "emit") => idx' = idx /\ signal' = signal
       /\ emitted' # emitted =>
              /\ s_pc = "emit"
              /\ emitted' = Append(emitted, emitted'[Len(emitted')])
              /\ emitted'[Len(emitted')].channel = channels[idx]
              /\ emitted'[Len(emitted')].signal = signal]_vars

\* a tick has ended whose last channel was above the base threshold and not
\* above the boosted one, and no event of that tick is in the log
C10_Witness ==
    /\ s_pc = "sleep"
    /\ mask_log = {} /\ e_call = Idle /\ ncalls > 0
    /\ boost_extra[channels[Len(channels)]] > 0
    /\ eff_thr = threshold + boost_extra[channels[Len(channels)]]
    /\ signal > threshold * Scale
    /\ signal <= eff_thr * Scale
    /\ tick_ms - last_hit_ms[channels[Len(channels)]] >= hit_debounce_ms
    /\ \A i \in 1..Len(emitted) : emitted[i].timestamp_ms # tick_ms

(***************************************************************************)
(* Properties of _map_damage                                               *)
(***************************************************************************)
\* C11: _map_damage returns a value in [MIN_DAMAGE, MAX_DAMAGE], the value
\* the ramp (val - thr) / DAMAGE_DIVISOR clamped to that range, and for a
\* fixed threshold a call with a signal at least as large returns a damage at
\* least as large.
C11_MapDamageMonotonicClamped ==
    [][/\ MIN_DAMAGE <= md_dmg' /\ md_dmg' <= MAX_DAMAGE
       /\ (md_thr' = md_thr /\ md_val' >= md_val) => md_dmg' >= md_dmg
       /\ (MIN_DAMAGE < md_dmg' /\ md_dmg' < MAX_DAMAGE)
              => md_dmg' * DAMAGE_DIVISOR * Scale = (md_val' - md_thr' * Scale) * 1000]_vars

\* a call whose ramp is far above MAX_DAMAGE, clamped
C11_Witness ==
    /\ (md_val - md_thr * Scale) * 1000 > (MAX_DAMAGE + MIN_DAMAGE) * DAMAGE_DIVISOR * Scale
    /\ md_dmg = MAX_DAMAGE

\* every event in the queue carries a damage in [MIN_DAMAGE, MAX_DAMAGE]
QueueDamageInRange ==
    \A i \in 1..Len(events) :
        MIN_DAMAGE <= events[i].damage /\ events[i].damage <= MAX_DAMAGE

(***************************************************************************)
(* Properties of the sampler under failures                                *)
(***************************************************************************)
\* C12: when the read of a channel raises during a tick, the sampler skips
\* that channel for the tick (no event, nothing stored for it), goes on with
\* the next channel of the tick or with the sleep before the next tick, and
\* the sampling task is not ended.
C12_ReadFailureSkipsChannel ==
    [][read_errors' # read_errors =>
          /\ s_pc' = AfterChannel
          /\ idx' = NextIdx
          /\ s_pc' # "crashed"
          /\ events' = events]_vars

\* C13: a tick of game_loop on which an analog read raises does not end the
\* round or the session; the reading is skipped, the hp of the fighter whose
\* read failed is unchanged by the tick, and the loop goes on.
C13_RoundSurvivesReadFailure ==
    [][raised_by' # raised_by =>
          /\ session' = "running"
          /\ hp'[raised_by'] = hp[raised_by']]_vars

(***************************************************************************)
(* Properties of the event queue                                           *)
(***************************************************************************)
\* C14: the queue never holds more than queue_maxlen events; an append to a
\* full queue discards the oldest pending event and keeps the new one as the
\* newest; an append always completes, and the sampler goes on after it.
C14_QueueBounded ==
    [][/\ Len(events') <= queue_maxlen
       /\ emitted' # emitted =>
              LET e == emitted'[Len(emitted')]
                  q == events'[Len(events')]
              IN  /\ events' # <<>>
                  /\ q.channel = e.channel /\ q.timestamp_ms = e.timestamp_ms
                  /\ SubSeq(events', 1, Len(events') - 1) =
                        IF Len(events) = queue_maxlen THEN Tail(events) ELSE events
       /\ (s_pc = "emit" /\ s_pc' # "emit") =>
              /\ emitted' # emitted
              /\ s_pc' \in {"read", "sleep"}]_vars

\* an append has found the queue full, and the queue holds the newest event
C14_Witness ==
    /\ Len(emitted) > 0
    /\ emitted[Len(emitted)].evicted
    /\ Len(events) = queue_maxlen
    /\ events[Len(events)].timestamp_ms = emitted[Len(emitted)].timestamp_ms
    /\ events[Len(events)].channel = emitted[Len(emitted)].channel

\* the place of an event in the log of emissions, 0 if it was never emitted
\* with these contents
EmitIndexIn(log, ev) ==
    LET is == {i \in 1..Len(log) :
                  /\ log[i].channel = ev.channel
                  /\ log[i].timestamp_ms = ev.timestamp_ms
                  /\ log[i].signal = ev.signal
                  /\ ev.damage = map_damage(log[i].signal, log[i].eff_thr)
                  /\ ev.value \in PiezoInputs}
    IN  IF is = {} THEN 0 ELSE CHOOSE i \in is : TRUE

EmitIndex(ev) == EmitIndexIn(emitted, ev)

\* C15: pop_events(max) never raises; the list it returns has at most max
\* entries (as many as min(max, pending at the call)), each an event as the
\* sampler emitted it, in the order of emission and all older than what is
\* left in the queue; it is empty when nothing was pending at the call.  This
\* holds with the sampler appending, overflowing appends included, between
\* any two steps of the call.
C15_PopOldestFirst ==
    [][/\ p_call'.op # "raised"
       /\ returned' # returned =>
              LET r == returned'[Len(returned')]
              IN  /\ Len(r.list) <= r.max_items
                  /\ \A k \in 1..Len(r.list) : EmitIndexIn(emitted', r.list[k]) > 0
                  /\ \A j, k \in 1..Len(r.list) :
                         j < k => EmitIndexIn(emitted', r.list[j]) < EmitIndexIn(emitted', r.list[k])
                  /\ \A k \in 1..Len(r.list), q \in 1..Len(events') :
                         EmitIndexIn(emitted', r.list[k]) < EmitIndexIn(emitted', events'[q])
                  /\ p_call.op = "none" =>
                         r.list = <<>> /\ (events = <<>> \/ r.max_items = 0)
                  /\ p_call.op = "pop" => Len(r.list) = p_call.n]_vars

\* a call has returned two events between which the sampler's appends
\* overflowed the queue: the two are not neighbours in the order of emission
C15_Witness ==
    \E c \in 1..Len(returned) :
        /\ Len(returned[c].list) = 2
        /\ EmitIndex(returned[c].list[2]) > EmitIndex(returned[c].list[1]) + 1

RECURSIVE Drained(_)
\* the events of the first c returned lists, one after the other
Drained(c) == IF c = 0 THEN <<>> ELSE Drained(c - 1) \o returned[c].list

\* every event that has left the sampler's hands and was not discarded:
\* returned, taken by the call in progress, or pending
Held ==
    Drained(Len(returned)) \o (IF p_call.op = "none" THEN <<>> ELSE p_call.got) \o events

\* C16: every hit event is appended once by the sampler; no event is returned
\* twice or returned and still pending; and as long as no append has
\* overflowed the queue every emitted event is either pending or returned by
\* exactly one pop_events call.
C16_ExactlyOnce ==
    /\ \A i, j \in 1..Len(emitted) :
           i < j => <<emitted[i].channel, emitted[i].timestamp_ms>> #
                    <<emitted[j].channel, emitted[j].timestamp_ms>>
    /\ \A k \in 1..Len(Held) : EmitIndex(Held[k]) > 0
    /\ \A j, k \in 1..Len(Held) : j < k => EmitIndex(Held[j]) # EmitIndex(Held[k])
    /\ (\A i \in 1..Len(emitted) : ~emitted[i].evicted) => Len(Held) = Len(emitted)

\* without overflow, three events have been emitted and have all been
\* returned, by two calls
C16_Witness ==
    /\ \A i \in 1..Len(emitted) : ~emitted[i].evicted
    /\ Len(emitted) >= 3
    /\ events = <<>>
    /\ p_call.op = "none"
    /\ Len(returned) = 2
    /\ returned[1].list # <<>>
    /\ returned[2].list # <<>>

(***************************************************************************)
(* Properties of start() and stop()                                        *)
(***************************************************************************)
\* C17: start() never raises; called while the sampling task is running it
\* changes nothing, and called while the task is not running (before the
\* first start or after a stop()) it leaves the task running.
C17_StartIdempotent ==
    [][(life_log' # life_log /\ life_log'[Len(life_log')].call = "start") =>
          /\ life_log'[Len(life_log')].result = "ok"
          /\ IsAlive => UNCHANGED <<samplerVars, stop_flag, spi_open>>
          /\ ~IsAlive => IsAlive']_vars

\* C18: a stop() called on a sampler that was never started, or called after
\* an earlier stop(), returns without raising and leaves the task not running
\* and the bus closed.
C18_StopSafe ==
    [][(/\ life_log' # life_log
        /\ life_log'[Len(life_log')].call = "stop"
        /\ \/ life_log'[Len(life_log')].never_started
           \/ \E i \in 1..Len(life_log) : life_log[i].call = "stop") =>
          /\ life_log'[Len(life_log')].result = "ok"
          /\ ~IsAlive'
          /\ ~spi_open']_vars

\* C19: stop() closes the bus only once the sampling task has ended: the task
\* is not running when the bus is closed nor when stop() returns, and the
\* task starts no channel read on the closed bus.
C19_CloseAfterExit ==
    [][/\ (spi_open /\ ~spi_open') => ~IsAlive
       /\ (life_log' # life_log /\ life_log'[Len(life_log')].call = "stop")
              => ~life_log'[Len(life_log')].alive
       /\ (s_pc = "read" /\ s_pc' # "read") => spi_open]_vars

(***************************************************************************)
(* Properties of boost_threshold                                           *)
(***************************************************************************)
\* C20: once boost_threshold(channels, extra, duration) called at time t has
\* returned, every tick of the sampler that begins after the return and
\* before t + duration uses an effective threshold of at least
\* threshold + extra on those channels, and emits no event for them whose
\* signal is not above threshold + extra, however the writes of the call
\* interleave with the sampler.
C20_BoostHolds ==
    \A i \in 1..Len(emitted) : \A b \in boost_log :
        (/\ emitted[i].channel = b.channel
         /\ b.ret < emitted[i].timestamp_ms
         /\ emitted[i].timestamp_ms < b.t + b.d) =>
            /\ emitted[i].eff_thr >= threshold + b.extra
            /\ emitted[i].signal > (threshold + b.extra) * Scale

\* C21: an expired boost contributes nothing. A threshold comparison of a
\* tick that begins after every boost window of its channel has lapsed uses
\* the base threshold; and a comparison of a tick inside the window of a
\* boost_threshold(extra2, d2) call that has returned, every other boost of
\* the channel having expired before that call was made, uses exactly
\* threshold + extra2.
C21_ExpiredBoostGone ==
    [][(s_pc = "threshold" /\ s_pc' # "threshold" /\ e_call = Idle) =>
          LET ch == channels[idx]
              mine == {b \in boost_log : b.channel = ch}
          IN  /\ (\A b \in mine : b.t + b.d < tick_ms) => eff_thr' = threshold
              /\ \A b \in mine :
                     (/\ b.ret < tick_ms
                      /\ tick_ms < b.t + b.d
                      /\ \A o \in mine \ {b} : o.t + o.d < b.t) =>
                         eff_thr' = threshold + b.extra]_vars

\* the upper limit alone: such a comparison uses no more than threshold + extra2
StaleBoostBounded ==
    [][(s_pc = "threshold" /\ s_pc' # "threshold" /\ e_call = Idle) =>
          LET ch == channels[idx]
              mine == {b \in boost_log : b.channel = ch}
          IN  \A b \in mine :
                 (/\ b.ret < tick_ms
                  /\ tick_ms < b.t + b.d
                  /\ \A o \in mine \ {b} : o.t + o.d < b.t) =>
                     eff_thr' <= threshold + b.extra]_vars

(***************************************************************************)
(* Properties of the constructor                                           *)
(***************************************************************************)
\* C22: a PiezoSensorReader given an empty channel tuple, or a channel id
\* outside 0..7, fails at construction: once the constructor has run it has
\* raised, the bus is not open and no sampling thread exists, and no error
\* is ever raised from inside the sampling thread.
C22_BadChannelsFailAtConstruction ==
    (\/ c_channels = <<>>
     \/ \E i \in 1..Len(c_channels) : ~(0 <= c_channels[i] /\ c_channels[i] <= 7)) =>
        /\ c_pc # "call" => (c_pc = "raised" /\ ~c_spi /\ c_task = "none")
        /\ c_error # "task"

(***************************************************************************)
(* Properties of FighterActuators                                          *)
(***************************************************************************)
\* C23: an _attack call with a negative hold_ms or cooldown_ms fails before any
\* actuator command is issued: the call issues no servo command and does not
\* return normally, and once it has failed, no macro being in progress, the
\* last angle commanded to its limb is neutral and the lock is free.
C23_BadMacroArgsFailAtCall ==
    \A t \in Callers :
        (a_pc[t] # "acquire" /\ (a_arg[t].hold_ms < 0 \/ a_arg[t].cooldown_ms < 0)) =>
            /\ a_ncmd[t] = 0
            /\ a_result[t] # "ok"
            /\ (\A u \in Callers : a_pc[u] = "idle") =>
                   /\ macro_angle[a_arg[t].servo] = neutral_deg
                   /\ a_lock = 0

\* C24: from a macro's swing command to the end of its cooldown no other
\* _attack call of the fighter issues a servo command, on any limb.
C24_MacrosExclusive ==
    [][\A t \in Callers : \A u \in Callers \ {t} :
          a_pc[t] \in {"hold", "cooldown"} => a_ncmd'[u] <= a_ncmd[u]]_vars

\* a second call waits for the lock while a macro on the same limb cools down
C24_Witness ==
    \E t \in Callers : \E u \in Callers \ {t} :
        /\ a_pc[t] = "cooldown"
        /\ a_pc[u] = "acquire"
        /\ a_arg[t].servo = a_arg[u].servo
        /\ a_lock = t

\* C25: a macro swings, holds for hold_ms, retracts, cools down for
\* cooldown_ms and only then releases the lock, holding the lock throughout;
\* so whenever the lock is free, the last angle a macro commanded to each
\* limb is its neutral angle.
C25_MacroOrder ==
    [][/\ \A t \in Callers :
           /\ a_ncmd'[t] > a_ncmd[t] => (a_lock = t /\ a_lock' = t)
           /\ (a_pc[t] = "hold" /\ a_pc'[t] # "hold") =>
                  /\ v_clock - a_since[t] >= a_arg[t].hold_ms
                  /\ a_pc'[t] = "cooldown"
                  /\ macro_angle'[a_arg[t].servo] = neutral_deg
           /\ (a_lock = t /\ a_lock' # t) =>
                  /\ a_pc[t] = "cooldown"
                  /\ v_clock - a_since[t] >= a_arg[t].cooldown_ms
       /\ a_lock' = 0 => \A l \in ServoLimbs : macro_angle'[l] = neutral_deg]_vars

\* C26: shutdown() disables an output only after it has commanded the arm and
\* the leg to neutral and the wheel to stop, and no pulse command arrives at
\* an output that has been disabled, whatever macro is in progress.
C26_ShutdownOrder ==
    /\ (\E o \in ServoOutputs : ~enabled[o]) => sd_posed = ServoOutputs
    /\ gpio_clean => \A o \in ServoOutputs : ~enabled[o]
    /\ cmd_last.on

(***************************************************************************)
(* Properties of the session                                               *)
(***************************************************************************)
\* C27: however the session ends, when the PWM outputs have been stopped and
\* the bus and GPIO released, the last command to every drive output was
\* stop and the last command to every arm was its neutral angle (or the
\* signal-off that reset_arms() sends after it).
C27_SafeBeforeRelease ==
    released =>
        /\ \A p \in Players : MoveOutputsStopped(p)
        /\ \A p \in Players : \A side \in Sides :
               pwm[<<p, ArmOf(side)>>] \in {AngleDuty(NeutralOf(side)), 0}

C29_FreshRound ==
    [][nround' # nround =>
          /\ \A p \in Players : hp'[p] = STARTING_HP /\ last_hit'[p] = 0
          /\ \A l \in Limbs : ~attacking'[l] /\ timer'[l] = 0
          /\ winner' = "none"]_vars

\* a second round begun after a knockout with a limb swinging and a hit
\* cooldown running
C29_Witness ==
    /\ nround = 1
    /\ prev_end.hp = 0
    /\ prev_end.hit
    /\ prev_end.swinging
    /\ \A p \in Players : hp[p] = STARTING_HP /\ last_hit[p] = 0
    /\ \A l \in Limbs : ~attacking[l]

(***************************************************************************)
(* Properties of the four limbs                                            *)
(***************************************************************************)
\* C30: on every tick each limb moves by its own button and its own state
\* alone: a limb that is neither triggered nor due for its reset keeps its
\* state, its start timestamp and its commanded angle whatever the other three
\* limbs do on that tick; a triggered limb starts swinging at the tick's time;
\* a limb due for its reset goes back to neutral and keeps its timestamp.
C30_LimbsIndependent ==
    [][\A l \in Limbs :
          LET arm == <<l[1], ArmOf(l[2])>>
              triggered == <<l[1], AtkButtonOf(l[2])>> \in btn' /\ ~attacking[l]
              due == attacking[l] /\ (now' - timer[l]) > attack_duration
          IN  /\ (~triggered /\ ~due) =>
                     /\ attacking'[l] = attacking[l]
                     /\ timer'[l] = timer[l]
                     /\ pwm'[arm] = pwm[arm]
              /\ triggered =>
                     /\ attacking'[l]
                     /\ timer'[l] = now'
                     /\ pwm'[arm] = AngleDuty(ARM_ATTACK)
              /\ due =>
                     /\ ~attacking'[l]
                     /\ timer'[l] = timer[l]
                     /\ pwm'[arm] = AngleDuty(NeutralOf(l[2]))]_vars

\* the four limbs swinging at once, begun on two different ticks
C30_Witness ==
    /\ \A l \in Limbs : attacking[l] /\ pwm[<<l[1], ArmOf(l[2])>>] = AngleDuty(ARM_ATTACK)
    /\ \E l1 \in Limbs, l2 \in Limbs : timer[l1] # timer[l2]

(***************************************************************************)
(* Properties of the damage detection, of the return of game_loop          *)
(***************************************************************************)
\* C31: on every tick and for each fighter, a reading that maps to zero damage
\* leaves the fighter's hp and cooldown clock unchanged; the cooldown clock
\* changes only on a tick that applies nonzero damage to that fighter (its hp
\* goes down on that tick); and the fighter's hp and clock after the tick are
\* the same whatever the other fighter's reading was.
C31_DamageFrame ==
    [][\A dt \in CooldownTickDeltas, f \in ForceInputs :
          (now' = now + dt /\ Tick(dt, {}, f)) =>
             \A p \in Players :
                /\ calculate_damage(f[p]) = 0 =>
                       hp'[p] = hp[p] /\ last_hit'[p] = last_hit[p]
                /\ last_hit'[p] # last_hit[p] =>
                       /\ calculate_damage(f[p]) > 0
                       /\ hp'[p] < hp[p]
                       /\ last_hit'[p] = now'
                /\ \A g \in ForceInputs :
                       g[p] = f[p] =>
                          \A st \in {LoopBody({}, g, now')} :
                             st.hp[p] = hp'[p] /\ st.last_hit[p] = last_hit'[p]]_vars

\* a fighter hit once and then read at rest on a later tick, the other
\* fighter never hit
C31_Witness ==
    \E p \in Players :
        /\ hp[p] < STARTING_HP
        /\ last_hit[p] > 0
        /\ last_hit[p] < now
        /\ ignored[p] = 0
        /\ hp[Other(p)] = STARTING_HP
        /\ last_hit[Other(p)] = 0

\* C32: when game_loop has returned, the fighter it names as winner has
\* hp > 0 and the other fighter has hp = 0, also when both fighters took
\* damage on the tick of the return.
C32_WinnerStanding ==
    \A p \in Players :
        winner = PlayerName(p) => hp[p] > 0 /\ hp[Other(p)] = 0

(***************************************************************************)
(* Properties of a resting channel, of the masks, of the end of the task   *)
(***************************************************************************)
\* C33: with every channel reading one constant value on every tick from the
\* sampler's first tick on, no hit event is ever emitted.
C33_RestingNeverHits == emitted = <<>>

\* the latest end of the masks the returned calls of log asked for channel c
MaskEnd(log, c) ==
    LET ends == {m.t + m.d : m \in {x \in log : x.channel = c}} \cup {0}
    IN  CHOOSE e \in ends : \A y \in ends : y <= e

\* C34: whenever no mask_channels call is in progress, a channel's mask-until
\* time is the maximum of call time + duration over the calls that named it;
\* and no step ever lowers a channel's mask-until time.
C34_MaskOnlyExtends ==
    [][/\ e_call' = Idle =>
             \A c \in ChannelSet : mask_until_ms'[c] = MaskEnd(mask_log', c)
       /\ \A c \in ChannelSet : mask_until_ms'[c] >= mask_until_ms[c]]_vars

\* a long mask of a channel followed, while it is in force, by a shorter one
\* that would have ended earlier
C34_Witness ==
    \E m1 \in mask_log, m2 \in mask_log :
        /\ m1.channel = m2.channel
        /\ m1.t < m2.t
        /\ m2.t < m1.t + m1.d
        /\ m2.t + m2.d < m1.t + m1.d
        /\ e_call = Idle
        /\ mask_until_ms[m1.channel] = m1.t + m1.d

\* C35: while the stop flag is set the sampling loop begins no tick, and a
\* running task whose stop flag is set eventually ends (it returns from _loop,
\* or a read of it raised).
C35_StopEndsTask ==
    /\ [][stop_flag => tick_ms' = tick_ms]_vars
    /\ (stop_flag /\ IsAlive) ~> ~IsAlive

\* stop() called during a tick, the task gone on to finish that tick and
\* returned from _loop while stop() was still joining it
C35_Witness ==
    /\ stop_flag
    /\ s_pc = "exited"
    /\ l_call.op = "join"
    /\ l_call.since = tick_ms
    /\ emitted # <<>>

====
